---- MODULE Spec2Model ----
(***************************************************************************)
(* A model of the organize rule engine: the group-filter dependency graph  *)
(* matcher (organize/filter.py), the action pipeline (organize/action.py)  *)
(* and the rule executor (organize/rule.py).                               *)
(***************************************************************************)
EXTENDS Integers, Sequences, FiniteSets, TLC

VARIABLES
    node_map,     \* the GroupFilter list (the rule's group_filters), in declaration order
    outcome,      \* what each group's pipeline(res, output) has returned on the resource
    mt,           \* the locals of GroupFilter.match
    rule,         \* the Rule: flat filters, filter_mode, group_actions, flat actions
    walk,         \* the paths the walker yields for the rule's locations, in order
    yielded,      \* how many resources Rule.execute has pulled from the walker
    res,          \* the Resource being processed: path, walker_skip_pathes
    skip_pathes,  \* Rule.execute's skip_pathes
    summary,      \* Rule.execute's ReportSummary: success, errors
    pc,           \* where Rule.execute stands
    ap,           \* the action_pipeline call in progress
    cur,          \* what has been evaluated, applied and counted for res
    promised,     \* the paths that successful action runs have put into walker_skip_pathes
    fp,           \* a filter_pipeline call: the filters' outcomes, the mode, what it returned
    twin,         \* the outcomes two executions share and what the first one returned
    base_dirs     \* BaseDirSet._base_dirs: the stored directories, in list order

matchvars == <<node_map, outcome, mt>>
rulevars == <<rule, walk, yielded, res, skip_pathes, summary, pc, ap, cur, promised>>
vars == <<node_map, outcome, mt, rule, walk, yielded, res, skip_pathes, summary, pc, ap, cur,
          promised, fp, twin, base_dirs>>

----------------------------------------------------------------------------
(* Bounds of the inputs.                                                   *)

\* Number of groups in the graphs whose dependencies point anywhere (cycles).
MaxFree == 3
\* Number of groups in the graphs declared in dependency order.
MaxGroups == 4
\* Largest number of dependencies one group declares.
MaxDeps == 2

----------------------------------------------------------------------------
(* Helpers on sequences.                                                   *)

Range(s) == {s[k] : k \in 1..Len(s)}

NoDuplicates(s) == \A j, k \in 1..Len(s) : j # k => s[j] # s[k]

----------------------------------------------------------------------------
(* GroupFilter: name, depend_on, depend_on_mode, depend_on_inverted.       *)

GroupNames == <<"A", "B", "C", "D", "E">>

\* A dependency name that is the name of no group.
Unknown == "X"

GroupFilter(name, depend_on, depend_on_mode, depend_on_inverted) ==
    [name |-> name, depend_on |-> depend_on, depend_on_mode |-> depend_on_mode,
     depend_on_inverted |-> depend_on_inverted]

\* nodes = {node.name: node for node in node_map}: the keys, in insertion order.
NodeNames(nm) == [k \in 1..Len(nm) |-> nm[k].name]

Nodes(nm, name) == nm[CHOOSE k \in 1..Len(nm) : nm[k].name = name]

\* The names of the groups of the graph.
KnownNames(nm) == Range(NodeNames(nm))

\* in_degree as it would be without the `if dep in nodes` test.
InDegree_AllDeps(nm) ==
    [name \in Range(NodeNames(nm)) |-> Cardinality(Nodes(nm, name).depend_on)]

\* in_degree[name]: the number of dependencies of name that are group names.
InDegree(nm) ==
    [name \in Range(NodeNames(nm)) |->
        Cardinality(Nodes(nm, name).depend_on \cap Range(NodeNames(nm)))]

\* children[dep] as it would be if a child were put in front of the list.
Children_Reversed(nm, dep) ==
    LET ch == SelectSeq(NodeNames(nm), LAMBDA c : dep \in Nodes(nm, c).depend_on)
    IN [k \in 1..Len(ch) |-> ch[Len(ch) + 1 - k]]

\* children[dep]: the groups that depend on dep, in declaration order (the outer
\* loop runs over nodes.values(); each node is appended at most once to a list).
Children(nm, dep) ==
    SelectSeq(NodeNames(nm), LAMBDA c : dep \in Nodes(nm, c).depend_on)

\* [name for name, deg in in_degree.items() if deg == 0]
ZeroInDegree(nm, in_degree) ==
    SelectSeq(NodeNames(nm), LAMBDA n : in_degree[n] = 0)

\* Kahn's loop as it would be if a child whose in-degree reaches zero were not
\* queued.
Kahn_NoRequeue(nm, queue, in_degree, visited_count) ==
    visited_count + Len(queue)

(* Kahn's loop of is_cyclic: pop the head, count it, decrement its children *)
(* and queue those whose in-degree reaches zero.                            *)
RECURSIVE Kahn(_, _, _, _)
Kahn(nm, queue, in_degree, visited_count) ==
    IF queue = <<>> THEN visited_count
    ELSE LET current == Head(queue)
             ch == Children(nm, current)
             deg == [n \in DOMAIN in_degree |->
                        IF n \in Range(ch) THEN in_degree[n] - 1 ELSE in_degree[n]]
         IN Kahn(nm, Tail(queue) \o SelectSeq(ch, LAMBDA c : deg[c] = 0),
                 deg, visited_count + 1)

\* is_cyclic as it would be if it only looked for a group to start from.
is_cyclic_NoStart(nm) ==
    Len(nm) > 0 /\ ZeroInDegree(nm, InDegree(nm)) = <<>>

is_cyclic(nm) ==
    Kahn(nm, ZeroInDegree(nm, InDegree(nm)), InDegree(nm), 0) # Len(nm)

----------------------------------------------------------------------------
(* GroupFilter.match, one step at a time.  mt.ret is "pending" while the   *)
(* call runs, "None" for the cyclic signal and "list" when mt.result is    *)
(* returned.  mt.log records every call of node.pipeline: the group, the   *)
(* round and what it returned.                                             *)

MatchIdle ==
    [pc |-> "call", ret |-> "pending", in_degree |-> <<>>, current_round |-> <<>>,
     next_round |-> <<>>, round_matched |-> <<>>, result |-> <<>>, i |-> 1,
     round |-> 0, log |-> <<>>]

\* Lines 104-127: the cycle check, the tables, the first frontier, `while`.
MatchEnter(nm) ==
    IF is_cyclic(nm)
    THEN [MatchIdle EXCEPT !.pc = "done", !.ret = "None"]
    ELSE LET first == ZeroInDegree(nm, InDegree(nm))
         IN [MatchIdle EXCEPT
                !.in_degree = InDegree(nm),
                !.current_round = first,
                !.round = 1,
                !.pc = IF first = <<>> THEN "done" ELSE "round",
                !.ret = IF first = <<>> THEN "list" ELSE "pending"]

\* The edge test as it would be in a plain topological pass: every edge propagates.
Fires_Always(nm, name, child, matched) == TRUE

\* The edge test as it would be without depend_on_inverted: matched alone.
Fires_Plain(nm, name, child, matched) == matched

\* The edge from name into child propagates: matched ^ (name in inverted).
Fires(nm, name, child, matched) ==
    matched # (name \in Nodes(nm, child).depend_on_inverted)

\* The loop body as it would be if every evaluated group went into round_matched.
MatchEval_KeepAll(nm, m, matched) ==
    LET name == m.current_round[m.i]
        fired == SelectSeq(Children(nm, name), LAMBDA c : Fires(nm, name, c, matched))
        deg == [n \in DOMAIN m.in_degree |->
                   IF n \in Range(fired) THEN m.in_degree[n] - 1 ELSE m.in_degree[n]]
        ready == SelectSeq(fired, LAMBDA c :
                     Nodes(nm, c).depend_on_mode = "or" \/ deg[c] = 0)
    IN [m EXCEPT
           !.round_matched = Append(@, name),
           !.in_degree = deg,
           !.next_round = @ \o ready,
           !.i = @ + 1,
           !.log = Append(@, [name |-> name, round |-> m.round, matched |-> matched])]

\* The loop body as it would be without depend_on_mode: a child waits for
\* every dependency.
MatchEval_AndOnly(nm, m, matched) ==
    LET name == m.current_round[m.i]
        fired == SelectSeq(Children(nm, name), LAMBDA c : Fires(nm, name, c, matched))
        deg == [n \in DOMAIN m.in_degree |->
                   IF n \in Range(fired) THEN m.in_degree[n] - 1 ELSE m.in_degree[n]]
        ready == SelectSeq(fired, LAMBDA c : deg[c] = 0)
    IN [m EXCEPT
           !.round_matched = IF matched THEN Append(@, name) ELSE @,
           !.in_degree = deg,
           !.next_round = @ \o ready,
           !.i = @ + 1,
           !.log = Append(@, [name |-> name, round |-> m.round, matched |-> matched])]

\* The loop body as it would be if every child joined the next frontier as
\* soon as one of its edges propagated.
MatchEval_OrOnly(nm, m, matched) ==
    LET name == m.current_round[m.i]
        fired == SelectSeq(Children(nm, name), LAMBDA c : Fires(nm, name, c, matched))
        deg == [n \in DOMAIN m.in_degree |->
                   IF n \in Range(fired) THEN m.in_degree[n] - 1 ELSE m.in_degree[n]]
    IN [m EXCEPT
           !.round_matched = IF matched THEN Append(@, name) ELSE @,
           !.in_degree = deg,
           !.next_round = @ \o fired,
           !.i = @ + 1,
           !.log = Append(@, [name |-> name, round |-> m.round, matched |-> matched])]

\* Lines 129-142: the body of `for name in current_round` for one name.
MatchEval(nm, m, matched) ==
    LET name == m.current_round[m.i]
        fired == SelectSeq(Children(nm, name), LAMBDA c : Fires(nm, name, c, matched))
        deg == [n \in DOMAIN m.in_degree |->
                   IF n \in Range(fired) THEN m.in_degree[n] - 1 ELSE m.in_degree[n]]
        ready == SelectSeq(fired, LAMBDA c :
                     Nodes(nm, c).depend_on_mode = "or" \/ deg[c] = 0)
    IN [m EXCEPT
           !.round_matched = IF matched THEN Append(@, name) ELSE @,
           !.in_degree = deg,
           !.next_round = @ \o ready,
           !.i = @ + 1,
           !.log = Append(@, [name |-> name, round |-> m.round, matched |-> matched])]

\* The end of a round as it would be under `while True`: the loop never returns.
MatchEndRound_NoTest(m) ==
    [m EXCEPT
        !.result = @ \o m.round_matched,
        !.current_round = m.next_round,
        !.next_round = <<>>,
        !.round_matched = <<>>,
        !.i = 1,
        !.round = IF m.next_round = <<>> THEN @ ELSE @ + 1]

\* The end of a round as it would be if a round without a match ended matching.
MatchEndRound_StopOnNoMatch(m) ==
    LET stop == m.next_round = <<>> \/ m.round_matched = <<>>
    IN [m EXCEPT
           !.result = @ \o m.round_matched,
           !.current_round = IF stop THEN <<>> ELSE m.next_round,
           !.next_round = <<>>,
           !.round_matched = <<>>,
           !.i = 1,
           !.round = IF stop THEN @ ELSE @ + 1,
           !.pc = IF stop THEN "done" ELSE "round",
           !.ret = IF stop THEN "list" ELSE "pending"]

\* The end of a round as it would be if the matches of the round were put in
\* front of the result.
MatchEndRound_Prepend(m) ==
    [m EXCEPT
        !.result = m.round_matched \o @,
        !.current_round = m.next_round,
        !.next_round = <<>>,
        !.round_matched = <<>>,
        !.i = 1,
        !.round = IF m.next_round = <<>> THEN @ ELSE @ + 1,
        !.pc = IF m.next_round = <<>> THEN "done" ELSE "round",
        !.ret = IF m.next_round = <<>> THEN "list" ELSE "pending"]

\* Lines 145-150 and the `while` test: close the round, open the next or return.
MatchEndRound(m) ==
    [m EXCEPT
        !.result = @ \o m.round_matched,
        !.current_round = m.next_round,
        !.next_round = <<>>,
        !.round_matched = <<>>,
        !.i = 1,
        !.round = IF m.next_round = <<>> THEN @ ELSE @ + 1,
        !.pc = IF m.next_round = <<>> THEN "done" ELSE "round",
        !.ret = IF m.next_round = <<>> THEN "list" ELSE "pending"]

----------------------------------------------------------------------------
(* The graphs matched.                                                     *)

\* Every choice of at most MaxDeps dependencies among `allowed`, each plain or
\* inverted ("not <name>"), with either depend_on_mode.
GroupChoices(name, allowed) ==
    UNION { { GroupFilter(name, d, mode, inv) :
                mode \in {"and", "or"}, inv \in SUBSET d } :
            d \in {s \in SUBSET allowed : Cardinality(s) <= MaxDeps} }

FirstNames(n) == {GroupNames[k] : k \in 1..n}

\* n groups, each depending only on groups declared before it: acyclic.
RECURSIVE TopoGraphs(_)
TopoGraphs(n) ==
    IF n = 0 THEN {<<>>}
    ELSE { Append(g, c) : g \in TopoGraphs(n - 1),
                          c \in GroupChoices(GroupNames[n], FirstNames(n - 1)) }

\* n groups, each depending on any of the names in `allowed` (itself, groups
\* declared later and names of no group included): cycles, unknown names.
RECURSIVE FreeGraphs(_, _)
FreeGraphs(n, allowed) ==
    IF n = 0 THEN {<<>>}
    ELSE { Append(g, c) : g \in FreeGraphs(n - 1, allowed),
                          c \in GroupChoices(GroupNames[n], allowed) }

\* Test case 5 of src/test.py: A; B and C on A; D on B and C; E on B.
Test5 ==
    << GroupFilter("A", {}, "and", {}),
       GroupFilter("B", {"A"}, "and", {}),
       GroupFilter("C", {"A"}, "and", {}),
       GroupFilter("D", {"B", "C"}, "and", {}),
       GroupFilter("E", {"B"}, "and", {}) >>

Test5Match == [n \in {"A", "B", "C", "D", "E"} |-> n # "C"]

GraphInputs ==
    TopoGraphs(MaxGroups)
        \cup FreeGraphs(MaxFree, FirstNames(MaxFree))
        \cup FreeGraphs(MaxFree - 1, FirstNames(MaxFree - 1) \cup {Unknown})
        \cup {Test5}

----------------------------------------------------------------------------
(* The reference of src/test.py: find_matching_path over nodes with name,  *)
(* dependOn and match; the outcome of match() is outc[name].               *)

\* src/test.py 15-22 and 53-60: in_degree and children.
RefInDegree(nm) ==
    [name \in Range(NodeNames(nm)) |->
        Cardinality(Nodes(nm, name).depend_on \cap Range(NodeNames(nm)))]

RefChildren(nm, dep) ==
    SelectSeq(NodeNames(nm), LAMBDA c : dep \in Nodes(nm, c).depend_on)

\* src/test.py 25-37: Kahn's loop of the reference is_cyclic.
RECURSIVE RefKahn(_, _, _, _)
RefKahn(nm, queue, in_degree, visited_count) ==
    IF queue = <<>> THEN visited_count
    ELSE LET ch == RefChildren(nm, Head(queue))
             deg == [n \in DOMAIN in_degree |->
                        IF n \in Range(ch) THEN in_degree[n] - 1 ELSE in_degree[n]]
         IN RefKahn(nm, Tail(queue) \o SelectSeq(ch, LAMBDA c : deg[c] = 0),
                    deg, visited_count + 1)

RefIsCyclic(nm) ==
    LET in_degree == RefInDegree(nm)
    IN RefKahn(nm, SelectSeq(NodeNames(nm), LAMBDA n : in_degree[n] = 0),
               in_degree, 0) # Len(nm)

\* src/test.py 70-78: the body of `for name in current_round` from position i
\* on; only a matching node decrements its children.
RECURSIVE RefRound(_, _, _, _)
RefRound(nm, outc, m, i) ==
    IF i > Len(m.current_round) THEN m
    ELSE LET name == m.current_round[i]
             ch == RefChildren(nm, name)
             deg == [n \in DOMAIN m.in_degree |->
                        IF n \in Range(ch) THEN m.in_degree[n] - 1 ELSE m.in_degree[n]]
         IN IF outc[name]
            THEN CHOOSE r \in {RefRound(nm, outc, n, i + 1) :
                     n \in {[m EXCEPT
                               !.round_matched = Append(@, name),
                               !.in_degree = deg,
                               !.next_round = @ \o SelectSeq(ch, LAMBDA c : deg[c] = 0)]}} :
                   TRUE
            ELSE RefRound(nm, outc, m, i + 1)

\* src/test.py 67-85: the `while current_round` loop; a round without a match
\* breaks it.
RECURSIVE RefRounds(_, _, _)
RefRounds(nm, outc, m) ==
    IF m.current_round = <<>> THEN m.result
    ELSE LET r == CHOOSE x \in {RefRound(nm, outc,
                                  [m EXCEPT !.next_round = <<>>, !.round_matched = <<>>],
                                  1)} : TRUE
         IN IF r.round_matched # <<>>
            THEN RefRounds(nm, outc,
                    [r EXCEPT !.result = @ \o r.round_matched,
                              !.current_round = r.next_round])
            ELSE r.result

\* src/test.py 40-87: None for a cyclic graph, else the list of matches.
find_matching_path(nm, outc) ==
    IF RefIsCyclic(nm) THEN [ret |-> "None", result |-> <<>>]
    ELSE LET in_degree == RefInDegree(nm)
         IN [ret |-> "list",
             result |-> RefRounds(nm, outc,
                           [in_degree |-> in_degree,
                            current_round |->
                                SelectSeq(NodeNames(nm), LAMBDA n : in_degree[n] = 0),
                            next_round |-> <<>>, round_matched |-> <<>>,
                            result |-> <<>>])]

----------------------------------------------------------------------------
(* GroupFilter.match run to its return, as group_filter_pipeline calls it. *)

RECURSIVE MatchRun(_, _, _)
MatchRun(nm, outc, m) ==
    IF m.pc = "done" THEN m
    ELSE IF m.i <= Len(m.current_round)
         THEN CHOOSE r \in {MatchRun(nm, outc, n) :
                        n \in {MatchEval(nm, m, outc[m.current_round[m.i]])}} : TRUE
         ELSE CHOOSE r \in {MatchRun(nm, outc, n) : n \in {MatchEndRound(m)}} : TRUE

----------------------------------------------------------------------------
(* filter_pipeline over the outcomes of the filters: "match", "no", "raise". *)
(* The value: the result, how many filters were invoked, how many errors   *)
(* went to the output.                                                     *)

\* Not.pipeline as it would be if it took an error of the filter for a non-match.
NotPipeline_ErrorIsNoMatch(o) == IF o = "match" THEN "no" ELSE "match"

\* Not(filter).pipeline: the negation; an error of the filter passes through.
NotPipeline(o) == IF o = "raise" THEN "raise" ELSE IF o = "match" THEN "no" ELSE "match"

\* All.pipeline as it would be if the `except` branch went on to the next filter.
AllPipeline_ErrorSkipped(outs, n) ==
    LET nos == {k \in 1..Len(outs) : outs[k] = "no"}
        last == IF nos = {} THEN Len(outs) ELSE CHOOSE k \in nos : \A j \in nos : k <= j
    IN [result |-> nos = {},
        invoked |-> last,
        errors |-> Cardinality({k \in 1..last : outs[k] = "raise"})]

\* All.pipeline as it would be without the early returns.
AllPipeline_NoShortCircuit(outs, n) ==
    [result |-> \A k \in 1..Len(outs) : outs[k] = "match",
     invoked |-> Len(outs),
     errors |-> Cardinality({k \in 1..Len(outs) : outs[k] = "raise"})]

RECURSIVE AllPipeline(_, _)
AllPipeline(outs, n) ==
    IF n > Len(outs) THEN [result |-> TRUE, invoked |-> Len(outs), errors |-> 0]
    ELSE IF outs[n] = "raise" THEN [result |-> FALSE, invoked |-> n, errors |-> 1]
    ELSE IF outs[n] = "no" THEN [result |-> FALSE, invoked |-> n, errors |-> 0]
    ELSE AllPipeline(outs, n + 1)

\* Any.pipeline as it would be if it returned at the first match.
AnyPipeline_ShortCircuit(outs) ==
    LET hits == {n \in 1..Len(outs) : outs[n] = "match"}
        last == IF hits = {} THEN Len(outs) ELSE CHOOSE n \in hits : \A k \in hits : n <= k
    IN [result |-> hits # {},
        invoked |-> last,
        errors |-> Cardinality({n \in 1..last : outs[n] = "raise"})]

AnyPipeline(outs) ==
    [result |-> \E n \in 1..Len(outs) : outs[n] = "match",
     invoked |-> Len(outs),
     errors |-> Cardinality({n \in 1..Len(outs) : outs[n] = "raise"})]

\* filter_pipeline as it would be if the empty list were no match in any mode.
filter_pipeline_EmptyIsFalse(outs, filter_mode) ==
    IF outs = <<>> THEN [result |-> FALSE, invoked |-> 0, errors |-> 0]
    ELSE IF filter_mode = "all" THEN AllPipeline(outs, 1)
    ELSE IF filter_mode = "any" THEN AnyPipeline(outs)
    ELSE AllPipeline([n \in 1..Len(outs) |-> NotPipeline(outs[n])], 1)

filter_pipeline(outs, filter_mode) ==
    IF filter_mode = "all" THEN AllPipeline(outs, 1)
    ELSE IF filter_mode = "any" THEN AnyPipeline(outs)
    ELSE AllPipeline([n \in 1..Len(outs) |-> NotPipeline(outs[n])], 1)

\* A call of filter_pipeline: the outcome of each filter of the list should it
\* be invoked, the filter_mode, whether the call has returned and what.
FilterCall(outs, filter_mode) ==
    [outs |-> outs, filter_mode |-> filter_mode, returned |-> FALSE,
     ret |-> [result |-> FALSE, invoked |-> 0, errors |-> 0]]

NoFilterCall == FilterCall(<<>>, "")

----------------------------------------------------------------------------
(* action_pipeline and GroupAction.pipeline, one application at a time.    *)
(* ap.seqs are the sequences to run: the flat action list (group ""), or   *)
(* the actions of each selected GroupAction; gi and ai point at the next   *)
(* action.  Applying an action returns ("ok"), raises StopIteration        *)
(* ("stop") or raises another error ("error").                             *)

GroupAction(name, actions) == [name |-> name, actions |-> actions]

NoPipeline ==
    [block |-> "", seqs |-> <<>>, simulate |-> FALSE, gi |-> 1, ai |-> 1,
     applied |-> <<>>, adds |-> {}]

\* The next sequence, from gi on, that has an action at position ai.
RECURSIVE Advance(_)
Advance(p) ==
    IF p.gi > Len(p.seqs) \/ p.ai <= Len(p.seqs[p.gi].actions) THEN p
    ELSE Advance([p EXCEPT !.gi = @ + 1, !.ai = 1])

action_pipeline(block, seqs, simulate) ==
    Advance([block |-> block, seqs |-> seqs, simulate |-> simulate, gi |-> 1, ai |-> 1,
             applied |-> <<>>, adds |-> {}])

Exhausted(p) == p.gi > Len(p.seqs)

\* An application as it would be if StopIteration were not caught: the loop goes on.
ActionApplied_StopIgnored(p, out, add) ==
    LET ev == [group |-> p.seqs[p.gi].name, action |-> p.seqs[p.gi].actions[p.ai],
               out |-> out, simulate |-> p.simulate]
        q == [p EXCEPT !.applied = Append(@, ev), !.adds = @ \cup add]
    IN IF out \in {"ok", "stop"} THEN Advance([q EXCEPT !.ai = @ + 1]) ELSE q

\* An application as it would be if a simulated run ended its sequence after
\* every action.
ActionApplied_SimulateBreaks(p, out, add) ==
    LET ev == [group |-> p.seqs[p.gi].name, action |-> p.seqs[p.gi].actions[p.ai],
               out |-> out, simulate |-> p.simulate]
        q == [p EXCEPT !.applied = Append(@, ev), !.adds = @ \cup add]
    IN IF out = "ok" /\ ~p.simulate THEN Advance([q EXCEPT !.ai = @ + 1])
       ELSE IF out \in {"ok", "stop"} THEN Advance([q EXCEPT !.gi = @ + 1, !.ai = 1])
       ELSE q

\* action.pipeline(res, simulate, output) returned or raised `out`, having put
\* `add` into res.walker_skip_pathes.  StopIteration breaks the loop of the
\* action_pipeline the action is in: the one GroupAction.pipeline runs for a
\* grouped action, the caller's for a flat one.
ActionApplied(p, out, add) ==
    LET ev == [group |-> p.seqs[p.gi].name, action |-> p.seqs[p.gi].actions[p.ai],
               out |-> out, simulate |-> p.simulate]
        q == [p EXCEPT !.applied = Append(@, ev), !.adds = @ \cup add]
    IN IF out = "ok" THEN Advance([q EXCEPT !.ai = @ + 1])
       ELSE IF out = "stop" THEN Advance([q EXCEPT !.gi = @ + 1, !.ai = 1])
       ELSE q

----------------------------------------------------------------------------
(* Rule, Resource, ReportSummary and the inputs of Rule.execute.           *)

\* Number of resources the walker yields.
MaxResources == 2
\* Number of flat filters of a rule.
MaxFilters == 1

Paths == {"p1", "p2"}

ReportSummary(success, errors) == [success |-> success, errors |-> errors]

Resource(path) == [path |-> path, walker_skip_pathes |-> {}]

NoResource == Resource("")

\* What cur records when a resource is pulled: the paths promised so far and
\* the summary so far; then whether its filters have been run, the filter
\* calls made, the action runs ended and the errors Rule.execute sent to the
\* output.  filter_raised is kept from one resource to the next: a filter
\* has raised an error (caught by All or Any) during the scan.
Pulled(path, before, base) ==
    [path |-> path, promised |-> before, base |-> base, evals |-> 0, runs |-> <<>>,
     reports |-> 0, filtered |-> FALSE, filter_raised |-> FALSE]

NoRule ==
    [locations |-> FALSE, filters |-> 0, filter_mode |-> "all", group_actions |-> <<>>,
     actions |-> <<>>, simulate |-> FALSE]

\* No second execution.
NoTwin == [run |-> 0]

\* The path of the resource of a rule without locations: Resource(path=None).
NoPath == "None"

\* The action groups and the flat action list: a rule has one or the other.
GroupActions == << GroupAction("A", <<1, 2>>), GroupAction("B", <<3>>) >>

FlatActions == <<1, 2>>

FilterOutcomes == {"match", "no", "raise"}

\* The group filters of a rule read from configuration: depend_on_mode is
\* left at its default, a dependency is "<name>" or "not <name>".
ConfigChoices(name, allowed) ==
    {c \in GroupChoices(name, allowed) : c.depend_on_mode = "and"}

RuleGraphs ==
    { <<a, b>> : a \in ConfigChoices("A", {"B"}), b \in ConfigChoices("B", {"A"}) }

\* A rule with locations has flat filters or group filters (rule.py:142) and
\* flat actions or action groups (rule.py:144, at least one).
LocatedRuleInputs ==
    { inp \in
        { [graph |-> g,
           rule |-> [locations |-> TRUE, filters |-> f, filter_mode |-> fm,
                     group_actions |-> as[1], actions |-> as[2],
                     simulate |-> FALSE]] :
            g \in RuleGraphs \cup {<<>>},
            f \in 0..MaxFilters,
            fm \in {"all", "any", "none"},
            as \in {<<GroupActions, <<>>>>, <<<<>>, FlatActions>>} } :
        inp.graph # <<>> => inp.rule.filters = 0 }

\* A rule without locations has no filters (rule.py:200-202).
StandaloneRuleInputs ==
    { [graph |-> <<>>,
       rule |-> [locations |-> FALSE, filters |-> 0, filter_mode |-> fm,
                 group_actions |-> as[1], actions |-> as[2],
                 simulate |-> FALSE]] :
        fm \in {"all", "any", "none"},
        as \in {<<GroupActions, <<>>>>, <<<<>>, FlatActions>>} }

RuleInputs == LocatedRuleInputs \cup StandaloneRuleInputs

ActionOutcomes == {"ok", "stop", "error"}

\* What one action application may put into res.walker_skip_pathes.
SkipAdds == {{}} \cup {{p} : p \in Paths}

\* The walker's streams: up to n paths, repeats included (locations overlap).
RECURSIVE Walks(_)
Walks(n) ==
    IF n = 0 THEN {<<>>}
    ELSE Walks(n - 1) \cup { Append(w, p) : w \in Walks(n - 1), p \in Paths }

----------------------------------------------------------------------------
(* The matcher on one resource.                                            *)

InitMatch ==
    /\ node_map \in GraphInputs
    /\ outcome = <<>>
    /\ mt = MatchIdle
    /\ rule = NoRule
    /\ walk = <<>>
    /\ yielded = 0
    /\ res = NoResource
    /\ skip_pathes = {}
    /\ summary = ReportSummary(0, 0)
    /\ pc = "off"
    /\ ap = NoPipeline
    /\ cur = Pulled("", {}, ReportSummary(0, 0))
    /\ promised = {}
    /\ fp = NoFilterCall
    /\ twin = NoTwin
    /\ base_dirs = <<>>

\* GroupFilter.match is called.
Match ==
    /\ pc = "off"
    /\ mt.pc = "call"
    /\ mt' = MatchEnter(node_map)
    /\ UNCHANGED <<base_dirs, twin, fp, node_map, outcome, rulevars>>

\* node.pipeline(res, output) runs on the next group of the frontier; a group
\* evaluated again on the same resource returns what it returned before.
EvalGroup ==
    /\ mt.pc = "round"
    /\ mt.i <= Len(mt.current_round)
    /\ LET name == mt.current_round[mt.i]
       IN \E matched \in BOOLEAN :
            /\ name \in DOMAIN outcome => matched = outcome[name]
            /\ outcome' = IF name \in DOMAIN outcome THEN outcome
                          ELSE outcome @@ (name :> matched)
            /\ mt' = MatchEval(node_map, mt, matched)
    /\ UNCHANGED <<base_dirs, twin, fp, node_map, rulevars>>

EndRound ==
    /\ mt.pc = "round"
    /\ mt.i > Len(mt.current_round)
    /\ mt' = MatchEndRound(mt)
    /\ UNCHANGED <<base_dirs, twin, fp, node_map, outcome, rulevars>>

NextMatch == Match \/ EvalGroup \/ EndRound

SpecMatch == InitMatch /\ [][NextMatch]_vars

----------------------------------------------------------------------------
(* Rule.execute on an enabled rule with locations.  pc: "call" before the  *)
(* call, "walk" at the head of the loop over self.walk(), "group" before   *)
(* the group-filter block, "flat" before the flat-filter block, "returned" *)
(* after `return summary`, "raised" when an error left Rule.execute.       *)

\* The skip test as it would be if it were left out.
InSkipPathes_Never(path, skip) == FALSE

\* Line 313: res.path in skip_pathes.
InSkipPathes(path, skip) == path \in skip

InitRule ==
    /\ \E inp \in RuleInputs : node_map = inp.graph /\ rule = inp.rule
    /\ walk \in Walks(MaxResources)
    /\ ~rule.locations => walk = <<>>
    /\ outcome = <<>>
    /\ mt = MatchIdle
    /\ yielded = 0
    /\ res = NoResource
    /\ skip_pathes = {}
    /\ summary = ReportSummary(0, 0)
    /\ pc = "call"
    /\ ap = NoPipeline
    /\ cur = Pulled("", {}, ReportSummary(0, 0))
    /\ promised = {}
    /\ fp = NoFilterCall
    /\ twin = NoTwin
    /\ base_dirs = <<>>

\* Lines 284-297: a rule without locations: the flat actions (`actions` of
\* classify_by_type) are piped on a resource without a path.
ExecuteStandalone ==
    /\ pc = "call"
    /\ ~rule.locations
    /\ res' = Resource(NoPath)
    /\ cur' = Pulled(NoPath, promised, summary)
    /\ ap' = action_pipeline("standalone", <<GroupAction("", rule.actions)>>,
                            rule.simulate)
    /\ pc' = "apply"
    /\ UNCHANGED <<base_dirs, twin, fp, matchvars, rule, walk, yielded, skip_pathes, summary, promised>>

\* Lines 281-311: classify filters and actions, summary and skip_pathes.
Execute ==
    /\ pc = "call"
    /\ rule.locations
    /\ pc' = "walk"
    /\ summary' = ReportSummary(0, 0)
    /\ skip_pathes' = {}
    /\ UNCHANGED <<base_dirs, twin, fp, matchvars, rule, walk, yielded, res, ap, cur, promised>>

\* Lines 312-314: the walker yields a path that is in skip_pathes: continue.
WalkSkip ==
    /\ pc = "walk"
    /\ yielded < Len(walk)
    /\ InSkipPathes(walk[yielded + 1], skip_pathes)
    /\ yielded' = yielded + 1
    /\ res' = Resource(walk[yielded + 1])
    /\ cur' = [Pulled(walk[yielded + 1], promised, summary) EXCEPT
                  !.filter_raised = cur.filter_raised]
    /\ ap' = NoPipeline
    /\ mt' = MatchIdle
    /\ outcome' = <<>>
    /\ UNCHANGED <<base_dirs, twin, fp, node_map, rule, walk, skip_pathes, summary, pc, promised>>

\* Lines 312-316: the walker yields a path to process.
WalkTake ==
    /\ pc = "walk"
    /\ yielded < Len(walk)
    /\ ~InSkipPathes(walk[yielded + 1], skip_pathes)
    /\ yielded' = yielded + 1
    /\ res' = Resource(walk[yielded + 1])
    /\ cur' = [Pulled(walk[yielded + 1], promised, summary) EXCEPT
                  !.filter_raised = cur.filter_raised]
    /\ ap' = NoPipeline
    /\ mt' = MatchIdle
    /\ outcome' = <<>>
    /\ pc' = IF node_map # <<>> THEN "group" ELSE "flat"
    /\ UNCHANGED <<base_dirs, twin, fp, node_map, rule, walk, skip_pathes, summary, promised>>

\* Lines 316-321: group_filter_pipeline finds the graph cyclic and raises;
\* nothing in Rule.execute catches the error.
GroupCyclic ==
    /\ pc = "group"
    /\ is_cyclic(node_map)
    /\ pc' = "raised"
    /\ UNCHANGED <<base_dirs, twin, fp, matchvars, rule, walk, yielded, res, skip_pathes, summary,
                   ap, cur, promised>>

\* The selection as it would be without the filter: every action group.
MatchedGroupActions_All(group_actions, result) == group_actions

\* Lines 322-324: list(filter(lambda a: a.name in result, group_actions)).
MatchedGroupActions(group_actions, result) ==
    SelectSeq(group_actions, LAMBDA a : a.name \in Range(result))

\* Lines 316-326: the matcher returns; the action groups it names are selected.
\* A filter of an evaluated group may have raised: All or Any caught it
\* inside the group's pipeline, which returned its boolean all the same.
GroupFilters ==
    /\ pc = "group"
    /\ ~is_cyclic(node_map)
    /\ \E outc \in [KnownNames(node_map) -> BOOLEAN], raised \in BOOLEAN :
       \E m \in {MatchRun(node_map, outc, MatchEnter(node_map))} :
         LET matched_group_actions == MatchedGroupActions(rule.group_actions, m.result)
         IN /\ mt' = m
            /\ outcome' = [n \in {m.log[j].name : j \in 1..Len(m.log)} |-> outc[n]]
            /\ raised => m.log # <<>>
            /\ cur' = [cur EXCEPT !.evals = @ + Len(m.log), !.filtered = TRUE,
                                  !.filter_raised = @ \/ raised]
            /\ ap' = action_pipeline("group", matched_group_actions, rule.simulate)
    /\ pc' = "apply"
    /\ UNCHANGED <<base_dirs, twin, fp, node_map, rule, walk, yielded, res, skip_pathes, summary, promised>>

\* Lines 345-351: filter_pipeline over the flat filters; on a match (self.actions
\* is never empty) the flat action list is piped.
FlatFilters ==
    /\ pc = "flat"
    /\ \E outs \in [1..rule.filters -> FilterOutcomes] :
         LET f == filter_pipeline(outs, rule.filter_mode)
         IN /\ cur' = [cur EXCEPT !.evals = @ + f.invoked, !.filtered = TRUE,
                                  !.filter_raised = @ \/ f.errors > 0]
            /\ IF f.result
               THEN /\ ap' = action_pipeline("flat", <<GroupAction("", rule.actions)>>,
                                              rule.simulate)
                    /\ pc' = "apply"
               ELSE /\ ap' = NoPipeline
                    /\ pc' = "walk"
    /\ UNCHANGED <<base_dirs, twin, fp, matchvars, rule, walk, yielded, res, skip_pathes, summary, promised>>

\* The `except` branch as it would be if it counted the run like the `try` branch.
ErrorCounted_AsSuccess(sm) == [sm EXCEPT !.success = @ + 1]

\* Lines 343, 370: summary.errors += 1.
ErrorCounted(sm) == [sm EXCEPT !.errors = @ + 1]

\* The end of a block as it would be if the group block ended the resource.
AfterBlock_NextResource(block) == "walk"

AfterBlock(block) == IF block = "group" THEN "flat" ELSE "walk"

\* The `except` branch as it would be if it re-raised: the error leaves Rule.execute.
AfterError_Propagates(block) == "raised"

\* Lines 335-343, 362-370: the error is caught; execution goes on after the block.
AfterError(block) == AfterBlock(block)

RunRecord(p, status) ==
    [block |-> p.block, applied |-> p.applied, status |-> status, adds |-> p.adds]

\* action.py 51-56: the next action is applied and returns or stops.
ApplyAction ==
    /\ pc = "apply"
    /\ ~Exhausted(ap)
    /\ \E out \in ActionOutcomes \ {"error"}, add \in SkipAdds :
         /\ ap' = ActionApplied(ap, out, add)
         /\ res' = [res EXCEPT !.walker_skip_pathes = @ \cup add]
    /\ UNCHANGED <<base_dirs, twin, fp, matchvars, rule, walk, yielded, skip_pathes, summary, pc, cur, promised>>

\* The next action raises an error: it leaves the pipeline and Rule.execute
\* counts it (lines 335-343, 362-370).
ApplyActionError ==
    /\ pc = "apply"
    /\ ap.block # "standalone"
    /\ ~Exhausted(ap)
    /\ \E add \in SkipAdds :
         LET p == ActionApplied(ap, "error", add)
         IN /\ ap' = p
            /\ res' = [res EXCEPT !.walker_skip_pathes = @ \cup add]
            /\ cur' = [cur EXCEPT !.runs = Append(@, RunRecord(p, "error")),
                                  !.reports = @ + 1]
    /\ summary' = ErrorCounted(summary)
    /\ pc' = AfterError(ap.block)
    /\ UNCHANGED <<base_dirs, twin, fp, matchvars, rule, walk, yielded, skip_pathes, promised>>

\* The pipeline is exhausted: lines 333-334, 360-361.
RunSucceeds ==
    /\ pc = "apply"
    /\ ap.block # "standalone"
    /\ Exhausted(ap)
    /\ skip_pathes' = skip_pathes \cup res.walker_skip_pathes
    /\ summary' = [summary EXCEPT !.success = @ + 1]
    /\ cur' = [cur EXCEPT !.runs = Append(@, RunRecord(ap, "ok"))]
    /\ promised' = promised \cup ap.adds
    /\ pc' = AfterBlock(ap.block)
    /\ UNCHANGED <<base_dirs, twin, fp, matchvars, rule, walk, yielded, res, ap>>

\* Line 298: the pipeline of a rule without locations is exhausted.
StandaloneReturn ==
    /\ pc = "apply"
    /\ ap.block = "standalone"
    /\ Exhausted(ap)
    /\ summary' = ReportSummary(1, 0)
    /\ cur' = [cur EXCEPT !.runs = Append(@, RunRecord(ap, "ok"))]
    /\ pc' = "returned"
    /\ UNCHANGED <<base_dirs, twin, fp, matchvars, rule, walk, yielded, res, skip_pathes, ap, promised>>

\* Lines 299-307: an action of a rule without locations raises an error.
StandaloneError ==
    /\ pc = "apply"
    /\ ap.block = "standalone"
    /\ ~Exhausted(ap)
    /\ \E add \in SkipAdds :
         LET p == ActionApplied(ap, "error", add)
         IN /\ ap' = p
            /\ res' = [res EXCEPT !.walker_skip_pathes = @ \cup add]
            /\ cur' = [cur EXCEPT !.runs = Append(@, RunRecord(p, "error")),
                                  !.reports = @ + 1]
    /\ summary' = ReportSummary(0, 1)
    /\ pc' = "returned"
    /\ UNCHANGED <<base_dirs, twin, fp, matchvars, rule, walk, yielded, skip_pathes, promised>>

\* Line 371: the walker is exhausted.
Return ==
    /\ pc = "walk"
    /\ yielded = Len(walk)
    /\ pc' = "returned"
    /\ UNCHANGED <<base_dirs, twin, fp, matchvars, rule, walk, yielded, res, skip_pathes, summary,
                   ap, cur, promised>>

NextRule ==
    ExecuteStandalone \/ Execute \/ WalkSkip \/ WalkTake \/ GroupCyclic
        \/ GroupFilters \/ FlatFilters \/ ApplyAction \/ ApplyActionError
        \/ RunSucceeds \/ StandaloneReturn \/ StandaloneError \/ Return

SpecRule == InitRule /\ [][NextRule]_vars

\* Rule.execute is one synchronous call over a finite walker whose filters and
\* actions terminate: a step that can be taken is taken.
SpecRuleFair == InitRule /\ [][NextRule]_vars /\ WF_vars(NextRule)

----------------------------------------------------------------------------
(* filter_pipeline on one filter list.                                     *)

\* Number of filters of the list.
MaxPipe == 3

\* The outcomes of the filters of a list of up to n filters.
RECURSIVE FilterLists(_)
FilterLists(n) ==
    IF n = 0 THEN {<<>>}
    ELSE FilterLists(n - 1) \cup
         { Append(l, o) : l \in {x \in FilterLists(n - 1) : Len(x) = n - 1},
                          o \in FilterOutcomes }

InitFilter ==
    /\ fp \in { FilterCall(outs, fm) : outs \in FilterLists(MaxPipe),
                                         fm \in {"all", "any", "none"} }
    /\ node_map = <<>>
    /\ outcome = <<>>
    /\ mt = MatchIdle
    /\ rule = NoRule
    /\ walk = <<>>
    /\ yielded = 0
    /\ res = NoResource
    /\ skip_pathes = {}
    /\ summary = ReportSummary(0, 0)
    /\ pc = "off"
    /\ ap = NoPipeline
    /\ cur = Pulled("", {}, ReportSummary(0, 0))
    /\ promised = {}
    /\ twin = NoTwin
    /\ base_dirs = <<>>

\* filter_pipeline(filters, filter_mode, res, output) is called and returns.
FilterPipelineCall ==
    /\ pc = "off"
    /\ fp # NoFilterCall
    /\ ~fp.returned
    /\ fp' = [fp EXCEPT !.returned = TRUE, !.ret = filter_pipeline(fp.outs, fp.filter_mode)]
    /\ UNCHANGED <<base_dirs, twin, matchvars, rulevars>>

NextFilter == FilterPipelineCall

SpecFilter == InitFilter /\ [][NextFilter]_vars

----------------------------------------------------------------------------
(* The matcher with the filter lists of the groups: node.pipeline is       *)
(* filter_pipeline(self.filters, self.filter_mode, res, output).  In this  *)
(* specification outcome[name] is the whole call of the group's pipeline   *)
(* and fp the last one made.                                               *)

\* Number of filters of a group.
MaxGroupFilters == 2

\* A returned call of filter_pipeline.
FilterReturn(outs, filter_mode) ==
    [FilterCall(outs, filter_mode) EXCEPT
        !.returned = TRUE, !.ret = filter_pipeline(outs, filter_mode)]

InitGroupPipeline ==
    /\ node_map \in RuleGraphs
    /\ outcome = <<>>
    /\ mt = MatchIdle
    /\ rule = NoRule
    /\ walk = <<>>
    /\ yielded = 0
    /\ res = NoResource
    /\ skip_pathes = {}
    /\ summary = ReportSummary(0, 0)
    /\ pc = "off"
    /\ ap = NoPipeline
    /\ cur = Pulled("", {}, ReportSummary(0, 0))
    /\ promised = {}
    /\ fp = NoFilterCall
    /\ twin = NoTwin
    /\ base_dirs = <<>>

\* filter.py 62-63 and 131: the pipeline of the next group of the frontier
\* runs its filters; what it returns is the group's `matched`.
EvalGroupFilters ==
    /\ mt.pc = "round"
    /\ mt.i <= Len(mt.current_round)
    /\ LET name == mt.current_round[mt.i]
       IN \E outs \in FilterLists(MaxGroupFilters), fm \in {"all", "any", "none"} :
            LET call == FilterReturn(outs, fm)
            IN /\ name \in DOMAIN outcome => call = outcome[name]
               /\ outcome' = IF name \in DOMAIN outcome THEN outcome
                             ELSE outcome @@ (name :> call)
               /\ fp' = call
               /\ mt' = MatchEval(node_map, mt, call.ret.result)
    /\ UNCHANGED <<base_dirs, twin, node_map, rulevars>>

NextGroupPipeline == Match \/ EvalGroupFilters \/ EndRound

SpecGroupPipeline == InitGroupPipeline /\ [][NextGroupPipeline]_vars

----------------------------------------------------------------------------
(* Two executions of one rule over one walker stream, the first with       *)
(* simulate=False and the second with simulate=True, in which every group  *)
(* and every action returns or raises the same outcome: twin.script.       *)
(* twin.first is what the first execution left when it ended.              *)

\* What a script fixes: the outcome of each action, the action (0: none) that
\* puts "p2" into res.walker_skip_pathes, and whether each group matches.
Scripts ==
    [out : [1..3 -> ActionOutcomes], adder : 0..3, match : [{"A", "B"} -> BOOLEAN]]

ScriptAdd(script, action) == IF script.adder = action THEN {"p2"} ELSE {}

ScriptWalks == {<<>>, <<"p1">>, <<"p1", "p2">>}

\* The rules executed twice: no flat filters, filter_mode at its default.
TwinRuleInputs ==
    {inp \in RuleInputs : inp.rule.filters = 0 /\ inp.rule.filter_mode = "all"}

\* An applied action without the flag it was passed.
Unflagged(applied) ==
    [j \in 1..Len(applied) |->
        [group |-> applied[j].group, action |-> applied[j].action, out |-> applied[j].out]]

\* What an execution has done when it ends: how it ended, the summary, the
\* skip-set, the resources pulled and the actions applied to the last one.
Observed ==
    [pc |-> pc, summary |-> summary, skip_pathes |-> skip_pathes, yielded |-> yielded,
     res |-> res, base |-> cur.base, evals |-> cur.evals,
     runs |-> [j \in 1..Len(cur.runs) |->
                 [block |-> cur.runs[j].block, status |-> cur.runs[j].status,
                  adds |-> cur.runs[j].adds,
                  applied |-> Unflagged(cur.runs[j].applied)]]]

InitTwin ==
    /\ \E inp \in TwinRuleInputs : node_map = inp.graph /\ rule = inp.rule
    /\ walk \in ScriptWalks
    /\ ~rule.locations => walk = <<>>
    /\ \E sc \in Scripts : twin = [run |-> 1, script |-> sc, first |-> <<>>]
    /\ base_dirs = <<>>
    /\ outcome = <<>>
    /\ mt = MatchIdle
    /\ yielded = 0
    /\ res = NoResource
    /\ skip_pathes = {}
    /\ summary = ReportSummary(0, 0)
    /\ pc = "call"
    /\ ap = NoPipeline
    /\ cur = Pulled("", {}, ReportSummary(0, 0))
    /\ promised = {}
    /\ fp = NoFilterCall

\* The outcomes of a step are those of the script, and no filter raises.
Scripted ==
    /\ (pc = "apply" /\ Len(ap'.applied) > Len(ap.applied)) =>
          LET action == ap.seqs[ap.gi].actions[ap.ai]
          IN /\ ap'.applied[Len(ap'.applied)].out = twin.script.out[action]
             /\ ap'.adds = ap.adds \cup ScriptAdd(twin.script, action)
             /\ res'.walker_skip_pathes =
                    res.walker_skip_pathes \cup ScriptAdd(twin.script, action)
    /\ (pc = "group" /\ pc' = "apply") =>
          /\ \A n \in DOMAIN outcome' : outcome'[n] = twin.script.match[n]
          /\ cur'.filter_raised = cur.filter_raised

\* Rule.execute is called again on the same rule and walker stream, now with
\* simulate=True.
Rerun ==
    /\ pc \in {"returned", "raised"}
    /\ twin.run = 1
    /\ twin' = [twin EXCEPT !.run = 2, !.first = Observed]
    /\ rule' = [rule EXCEPT !.simulate = TRUE]
    /\ outcome' = <<>>
    /\ mt' = MatchIdle
    /\ yielded' = 0
    /\ res' = NoResource
    /\ skip_pathes' = {}
    /\ summary' = ReportSummary(0, 0)
    /\ pc' = "call"
    /\ ap' = NoPipeline
    /\ cur' = Pulled("", {}, ReportSummary(0, 0))
    /\ promised' = {}
    /\ UNCHANGED <<base_dirs, node_map, walk, fp>>

NextTwin ==
    \/ ExecuteStandalone /\ Scripted
    \/ Execute /\ Scripted
    \/ WalkSkip /\ Scripted
    \/ WalkTake /\ Scripted
    \/ GroupCyclic /\ Scripted
    \/ GroupFilters /\ Scripted
    \/ FlatFilters /\ Scripted
    \/ ApplyAction /\ Scripted
    \/ ApplyActionError /\ Scripted
    \/ RunSucceeds /\ Scripted
    \/ StandaloneReturn /\ Scripted
    \/ StandaloneError /\ Scripted
    \/ Return /\ Scripted
    \/ Rerun

SpecTwin == InitTwin /\ [][NextTwin]_vars

----------------------------------------------------------------------------
(* group_filter_from_dict: a group filter read from configuration.  A      *)
(* dependency entry is a string, here the sequence of its characters, so   *)
(* that startswith("not ") and dep[4:] are computed; rule.filters is the   *)
(* declared dict d and node_map the list of the group filters built.       *)

\* Entries of one depend_on list.
MaxEntries == 3

NotPrefix == <<"n", "o", "t", " ">>

\* "A", "B", "not A", "not B", "not" and "not not A".
ConfigEntries ==
    {<<"A">>, <<"B">>, NotPrefix \o <<"A">>, NotPrefix \o <<"B">>, <<"n", "o", "t">>,
     NotPrefix \o NotPrefix \o <<"A">>}

\* The declared dicts: depend_on, and depend_on_mode when the key is present.
ConfigDicts ==
    [depend_on : {e \in SUBSET ConfigEntries : Cardinality(e) <= MaxEntries},
     depend_on_mode : {"absent", "and", "or"}]

\* dep.startswith("not ")
StartsWithNot(dep) == Len(dep) >= 4 /\ SubSeq(dep, 1, 4) = NotPrefix

\* dep[4:]
AfterNot(dep) == SubSeq(dep, 5, Len(dep))

\* rule.py 94-112: the keys read are filters, depend_on and filter_mode;
\* depend_on_mode is not passed to GroupFilter and takes its default.
group_filter_from_dict(name, d) ==
    GroupFilter(name,
        {IF StartsWithNot(dep) THEN AfterNot(dep) ELSE dep : dep \in d.depend_on},
        "and",
        {AfterNot(dep) : dep \in {e \in d.depend_on : StartsWithNot(e)}})

InitConfig ==
    /\ \E d \in ConfigDicts : rule = [NoRule EXCEPT !.filters = d]
    /\ pc = "config"
    /\ node_map = <<>>
    /\ outcome = <<>>
    /\ mt = MatchIdle
    /\ walk = <<>>
    /\ yielded = 0
    /\ res = NoResource
    /\ skip_pathes = {}
    /\ summary = ReportSummary(0, 0)
    /\ ap = NoPipeline
    /\ cur = Pulled("", {}, ReportSummary(0, 0))
    /\ promised = {}
    /\ fp = NoFilterCall
    /\ twin = NoTwin
    /\ base_dirs = <<>>

\* rule.py 163-166: validate_filters builds the group filter of the dict.
BuildGroupFilter ==
    /\ pc = "config"
    /\ node_map' = <<group_filter_from_dict(<<"G">>, rule.filters)>>
    /\ pc' = "built"
    /\ UNCHANGED <<base_dirs, twin, fp, outcome, mt, rule, walk, yielded, res, skip_pathes, summary,
                   ap, cur, promised>>

NextConfig == BuildGroupFilter

SpecConfig == InitConfig /\ [][NextConfig]_vars

----------------------------------------------------------------------------
(* Rule construction: the model validator validate_target_support.  A     *)
(* filter is its filter_config, an action its action_config; a group is a  *)
(* record with the list of its members.  In this specification `rule` is   *)
(* the candidate whose fields have been validated, `locations` telling     *)
(* whether its list of locations is non-empty.                             *)

\* Entries of a flat list and groups of a grouped list.
MaxConfigured == 2

\* Members of a group.
MaxMembers == 1

FilterConfig(files, dirs) == [files |-> files, dirs |-> dirs]

ActionConfig(standalone, files, dirs) ==
    [standalone |-> standalone, files |-> files, dirs |-> dirs]

FilterConfigs == {FilterConfig(f, d) : f, d \in BOOLEAN}

ActionConfigs == {ActionConfig(sa, f, d) : sa, f, d \in BOOLEAN}

\* The sequences over S of at most n elements.
ListsUpTo(S, n) == UNION {[1..k -> S] : k \in 0..n}

\* Union[List[Filter], List[GroupFilter]]: filters, or groups of filters.
FilterFields ==
    ListsUpTo(FilterConfigs, MaxConfigured)
        \cup ListsUpTo({[filters |-> m] : m \in ListsUpTo(FilterConfigs, MaxMembers)},
                       MaxConfigured)

\* Union[List[Action], List[GroupAction]] with min_length=1.
ActionFields ==
    (ListsUpTo(ActionConfigs, MaxConfigured)
        \cup ListsUpTo({[actions |-> m] : m \in ListsUpTo(ActionConfigs, MaxMembers)},
                       MaxConfigured)) \ {<<>>}

Candidates ==
    [targets : {"files", "dirs"}, locations : BOOLEAN,
     filters : FilterFields, actions : ActionFields]

\* isinstance(f, GroupFilter), isinstance(a, GroupAction).
IsGroupFilter(f) == "filters" \in DOMAIN f

IsGroupAction(a) == "actions" \in DOMAIN a

\* Lines 179-186: all_filters.
RECURSIVE all_filters(_)
all_filters(filters) ==
    IF filters = <<>> THEN <<>>
    ELSE (IF IsGroupFilter(Head(filters)) THEN Head(filters).filters
          ELSE <<Head(filters)>>) \o all_filters(Tail(filters))

\* all_actions as it would be if the members of action groups were left out.
all_actions_FlatOnly(actions) ==
    SelectSeq(actions, LAMBDA a : ~IsGroupAction(a))

\* Lines 188-196: all_actions.
RECURSIVE all_actions(_)
all_actions(actions) ==
    IF actions = <<>> THEN <<>>
    ELSE (IF IsGroupAction(Head(actions)) THEN Head(actions).actions
          ELSE <<Head(actions)>>) \o all_actions(Tail(actions))

\* Lines 198-239: the error validate_target_support raises on the rule r, ""
\* when it returns self.
validate_target_support(r) ==
    LET fs == all_filters(r.filters)
        as == all_actions(r.actions)
    IN IF ~r.locations /\ r.filters # <<>>
       THEN "Filters are present but no locations are given!"
       ELSE IF ~r.locations /\ \E k \in 1..Len(as) : ~as[k].standalone
       THEN "Action does not support standalone mode"
       ELSE IF r.targets = "dirs"
       THEN IF \E k \in 1..Len(fs) : ~fs[k].dirs
            THEN "Filter does not support folders"
            ELSE IF \E k \in 1..Len(as) : ~as[k].dirs
            THEN "Action does not support folders"
            ELSE ""
       ELSE IF r.targets = "files"
       THEN IF \E k \in 1..Len(fs) : ~fs[k].files
            THEN "Filter does not support files"
            ELSE IF \E k \in 1..Len(as) : ~as[k].files
            THEN "Action does not support files"
            ELSE ""
       ELSE "Unknown target"

InitConstruct ==
    /\ rule \in Candidates
    /\ pc = "construct"
    /\ node_map = <<>>
    /\ outcome = <<>>
    /\ mt = MatchIdle
    /\ walk = <<>>
    /\ yielded = 0
    /\ res = NoResource
    /\ skip_pathes = {}
    /\ summary = ReportSummary(0, 0)
    /\ ap = NoPipeline
    /\ cur = Pulled("", {}, ReportSummary(0, 0))
    /\ promised = {}
    /\ fp = NoFilterCall
    /\ twin = NoTwin
    /\ base_dirs = <<>>

\* Line 241: the validator returns self; construction accepts the rule.
ConstructAccepts ==
    /\ pc = "construct"
    /\ validate_target_support(rule) = ""
    /\ pc' = "accepted"
    /\ UNCHANGED <<base_dirs, twin, fp, matchvars, rule, walk, yielded, res, skip_pathes, summary,
                   ap, cur, promised>>

\* The validator raises ValueError; construction fails.
ConstructRaises ==
    /\ pc = "construct"
    /\ validate_target_support(rule) # ""
    /\ pc' = "ValueError"
    /\ UNCHANGED <<base_dirs, twin, fp, matchvars, rule, walk, yielded, res, skip_pathes, summary,
                   ap, cur, promised>>

NextConstruct == ConstructAccepts \/ ConstructRaises

SpecConstruct == InitConstruct /\ [][NextConstruct]_vars

\* The scheduling of a synchronous call: a step that can be taken is taken.
SpecMatchFair == InitMatch /\ [][NextMatch]_vars /\ WF_vars(NextMatch)

----------------------------------------------------------------------------
(* Notions the properties are stated with.                                 *)

\* The groups reached from the set S along at most k dependency edges.
RECURSIVE Downstream(_, _, _)
Downstream(nm, S, k) ==
    IF k = 0 THEN S
    ELSE Downstream(nm,
            S \cup {c \in KnownNames(nm) : Nodes(nm, c).depend_on \cap S # {}},
            k - 1)

\* The groups that depend, directly or not, on group n.
Dependents(nm, n) ==
    Downstream(nm, {c \in KnownNames(nm) : n \in Nodes(nm, c).depend_on}, Len(nm))

\* The depend_on edges between group names contain a directed cycle.
HasCycle(nm) == \E n \in KnownNames(nm) : n \in Dependents(nm, n)

\* The groups whose pipeline has been called.
Evaluated == {mt.log[k].name : k \in 1..Len(mt.log)}

Returned == mt.pc = "done" /\ mt.ret = "list"

----------------------------------------------------------------------------
(* Properties of GroupFilter.match.                                        *)

\* C1: on an acyclic graph the returned list holds only group names of the
\* graph and holds each name at most once.
C1_ResultNamesOnce ==
    Returned => /\ Range(mt.result) \subseteq KnownNames(node_map)
                /\ NoDuplicates(mt.result)

\* C2: an and-mode group with a plain dependency on a known group that did not
\* match, or was never evaluated, is never evaluated and is not in the result.
C2_AndGroupPruned ==
    Returned =>
        \A k \in 1..Len(node_map) :
            LET g == node_map[k]
                blocked == \E p \in (g.depend_on \cap KnownNames(node_map))
                                        \ g.depend_on_inverted :
                               p \notin DOMAIN outcome \/ ~outcome[p]
            IN (g.depend_on_mode = "and" /\ blocked) =>
                   /\ g.name \notin Evaluated
                   /\ g.name \notin Range(mt.result)

\* C3: a graph with a dependency cycle among its group names gets the cyclic
\* signal and none of its groups is evaluated.
C3_CyclicIsNone ==
    HasCycle(node_map) =>
        /\ mt.log = <<>>
        /\ mt.ret # "list"
        /\ mt.pc = "done" => mt.ret = "None"

\* A cycle behind an acyclic prefix has been reported.
C3_Witness ==
    /\ HasCycle(node_map)
    /\ \E k \in 1..Len(node_map) : node_map[k].depend_on = {}
    /\ mt.pc = "done"
    /\ mt.ret = "None"

\* C9: on an acyclic graph the matcher terminates with a result list.
C9_Terminates == (~HasCycle(node_map)) => <>Returned

\* A list returned after three rounds in which a group was evaluated twice.
C9_Witness ==
    /\ Returned
    /\ mt.round >= 3
    /\ \E j, k \in 1..Len(mt.log) : j # k /\ mt.log[j].name = mt.log[k].name

\* C10: test case 5 with A, B, D, E matching and C not matching returns
\* [A, B, E]; C is evaluated, D is not.
C10_Test5 ==
    ( /\ node_map = Test5
      /\ mt.pc = "done"
      /\ \A n \in DOMAIN outcome : outcome[n] = Test5Match[n] )
    => /\ mt.ret = "list"
       /\ mt.result = <<"A", "B", "E">>
       /\ "C" \in Evaluated
       /\ "D" \notin Evaluated

C10_Witness ==
    /\ node_map = Test5
    /\ mt.pc = "done"
    /\ DOMAIN outcome = {"A", "B", "C", "E"}
    /\ \A n \in DOMAIN outcome : outcome[n] = Test5Match[n]

\* The chain G1 <- G2 <- ... starting with ch: each next group has the last
\* group of ch as its single, plain, and-mode dependency; <<>> when the
\* groups do not form such a chain.
RECURSIVE ChainFrom(_, _)
ChainFrom(nm, ch) ==
    IF Len(ch) = Len(nm) THEN ch
    ELSE LET nxt == {k \in 1..Len(nm) :
                        /\ nm[k].depend_on = {ch[Len(ch)]}
                        /\ nm[k].depend_on_mode = "and"
                        /\ nm[k].depend_on_inverted = {}}
         IN IF Cardinality(nxt) # 1 THEN <<>>
            ELSE ChainFrom(nm, Append(ch, nm[CHOOSE k \in nxt : TRUE].name))

\* The groups in chain order, or <<>> when the graph is no chain.
Chain(nm) ==
    LET roots == {k \in 1..Len(nm) : nm[k].depend_on = {}}
    IN IF Cardinality(roots) # 1 THEN <<>>
       ELSE ChainFrom(nm, <<nm[CHOOSE k \in roots : TRUE].name>>)

\* The names of the groups evaluated, in the order of their evaluation.
LogNames == [k \in 1..Len(mt.log) |-> mt.log[k].name]

\* C11: on a chain of single plain and-mode dependencies the groups are
\* evaluated in chain order up to and including the first that does not match,
\* and the returned list is the matching prefix before it, in chain order.
C11_ChainPrefix ==
    LET ch == Chain(node_map)
    IN ch # <<>> =>
        /\ Len(mt.log) <= Len(ch)
        /\ LogNames = SubSeq(ch, 1, Len(mt.log))
        /\ \A k \in 1..(Len(mt.log) - 1) : mt.log[k].matched
        /\ Returned =>
              LET j == Cardinality({k \in 1..Len(mt.log) : mt.log[k].matched})
              IN /\ mt.result = SubSeq(ch, 1, j)
                 /\ Len(mt.log) = IF j < Len(ch) THEN j + 1 ELSE j

\* A chain of the longest length: the first two groups matched, the third did
\* not and the fourth was never evaluated.
C11_Witness ==
    /\ Len(Chain(node_map)) = MaxGroups
    /\ Returned
    /\ Len(mt.result) = 2
    /\ Len(mt.log) = 3
    /\ ~mt.log[3].matched

\* The dependencies of group g that are names of groups of the graph.
KnownDeps(nm, g) == g.depend_on \cap KnownNames(nm)

\* The rounds in which group n was evaluated.
RoundsOf(n) == {mt.log[k].round : k \in {j \in 1..Len(mt.log) : mt.log[j].name = n}}

\* The pairs <<G, P>>: and-mode group G whose only known dependency is the
\* inverted edge on P.
NotEdges(nm) ==
    {gp \in KnownNames(nm) \X KnownNames(nm) :
        /\ Nodes(nm, gp[1]).depend_on_mode = "and"
        /\ KnownDeps(nm, Nodes(nm, gp[1])) = {gp[2]}
        /\ gp[2] \in Nodes(nm, gp[1]).depend_on_inverted}

C13_NotAbsentEvaluated ==
    Returned =>
        \A k \in 1..Len(node_map) : \A P \in KnownNames(node_map) :
            ( /\ node_map[k].depend_on = {P}
              /\ node_map[k].depend_on_inverted = {P}
              /\ P \notin Range(mt.result) )
            => node_map[k].name \in Evaluated

\* The or-mode groups of the graph that have two known parents.
OrGroups(nm) ==
    {n \in KnownNames(nm) :
        /\ Nodes(nm, n).depend_on_mode = "or"
        /\ Cardinality(KnownDeps(nm, Nodes(nm, n))) = 2}

\* The rounds in which an evaluation of P satisfied the condition of its edge
\* into G.
FiredRounds(nm, P, G) ==
    {mt.log[k].round : k \in {j \in 1..Len(mt.log) :
        /\ mt.log[j].name = P
        /\ Fires(nm, P, G, mt.log[j].matched)}}

FrontierStep ==
    mt.pc = "round" =>
        /\ mt'.pc = "done" =>
              /\ mt.next_round = <<>>
              /\ mt.i > Len(mt.current_round)
              /\ mt'.ret = "list"
        /\ (mt'.pc = "round" /\ mt'.round # mt.round) =>
              /\ mt.i > Len(mt.current_round)
              /\ mt.next_round # <<>>
              /\ mt'.round = mt.round + 1
              /\ mt'.current_round = mt.next_round
              /\ mt'.i = 1
              /\ mt'.log = mt.log
        /\ (mt'.pc = "round" /\ mt'.round = mt.round) =>
              /\ mt.i <= Len(mt.current_round)
              /\ mt'.i = mt.i + 1
              /\ mt'.current_round = mt.current_round
              /\ Len(mt'.log) = Len(mt.log) + 1
              /\ mt'.log[Len(mt'.log)].name = mt.current_round[mt.i]
              /\ mt'.log[Len(mt'.log)].round = mt.round
              /\ SubSeq(mt'.next_round, 1, Len(mt.next_round)) = mt.next_round

Roots(nm) ==
    SelectSeq(NodeNames(nm), LAMBDA n : KnownDeps(nm, Nodes(nm, n)) = {})

\* The names of the groups evaluated in round r, in the order of evaluation.
RoundLog(r) ==
    LET ks == SelectSeq([k \in 1..Len(mt.log) |-> k], LAMBDA k : mt.log[k].round = r)
    IN [j \in 1..Len(ks) |-> mt.log[ks[j]].name]

\* C16: on an acyclic graph the groups evaluated in round 1 are exactly the
\* groups with no known dependency (no dependency, or only names of no
\* group), none of them is evaluated in a later round, and a dependency name
\* of no group neither fails the call nor keeps a group from the frontier.
C16_RootsInRoundOne ==
    (~HasCycle(node_map) /\ mt.pc = "done") =>
        /\ mt.ret = "list"
        /\ RoundLog(1) = Roots(node_map)
        /\ \A n \in Range(Roots(node_map)) : RoundsOf(n) = {1}

\* A group that names only a dependency of no group was evaluated in round 1,
\* and a group that names it beside a known dependency in round 2.
C16_Witness ==
    /\ Returned
    /\ \E j, k \in 1..Len(node_map) :
          /\ node_map[j].depend_on = {Unknown}
          /\ RoundsOf(node_map[j].name) = {1}
          /\ node_map[k].depend_on = {node_map[j].name, Unknown}
          /\ RoundsOf(node_map[k].name) = {2}

----------------------------------------------------------------------------
(* Properties of Rule.execute and action_pipeline.                         *)

Counted(sm) == sm.success + sm.errors

\* Every action application on the current resource, in order.
RECURSIVE Flatten(_)
Flatten(runs) ==
    IF runs = <<>> THEN <<>> ELSE Head(runs).applied \o Flatten(Tail(runs))

AppliedToRes ==
    Flatten(cur.runs) \o (IF pc = "apply" THEN ap.applied ELSE <<>>)

\* The action runs on the current resource, the one in progress included.
RunsOfRes ==
    [j \in 1..Len(cur.runs) |-> cur.runs[j].applied]
        \o (IF pc = "apply" THEN <<ap.applied>> ELSE <<>>)

\* C4: each resource the walker yields adds at most one to success + errors,
\* so success + errors never exceeds the number of resources yielded.
C4_OneCountPerResource ==
    /\ Counted(summary) - Counted(cur.base) <= 1
    /\ Counted(summary) <= yielded

\* C5: a resource whose path a successful action run on an earlier resource
\* put into walker_skip_pathes is skipped: no filter is evaluated on it, no
\* action is applied to it and it changes neither count.
C5_PromisedPathSkipped ==
    (yielded > 0 /\ cur.path \in cur.promised) =>
        /\ cur.evals = 0
        /\ cur.runs = <<>>
        /\ pc \in {"walk", "returned"}
        /\ ap = NoPipeline
        /\ mt = MatchIdle
        /\ summary = cur.base

\* The second resource was promised by the first and the scan has returned.
C5_Witness ==
    /\ pc = "returned"
    /\ yielded = 2
    /\ cur.path \in cur.promised
    /\ Counted(summary) > 0

\* C6: when an action raises the stop signal, no later action of its sequence
\* is applied, the stop is no error (a run ends in error only on an action
\* that raised an error), and each run that ended without error is counted as
\* one success.
C6_StopEndsSequence ==
    /\ \A r \in 1..Len(RunsOfRes) :
         LET a == RunsOfRes[r]
         IN \A i, j \in 1..Len(a) :
              (i < j /\ a[i].out = "stop") => a[j].group # a[i].group
    /\ \A r \in 1..Len(cur.runs) :
         cur.runs[r].status = "error" <=>
            ( /\ cur.runs[r].applied # <<>>
              /\ cur.runs[r].applied[Len(cur.runs[r].applied)].out = "error" )
    /\ summary.success - cur.base.success =
         Cardinality({r \in 1..Len(cur.runs) : cur.runs[r].status = "ok"})
    /\ summary.errors - cur.base.errors =
         Cardinality({r \in 1..Len(cur.runs) : cur.runs[r].status = "error"})

\* The first of the two flat actions stopped the run, which counted as a success.
C6_Witness ==
    /\ Len(cur.runs) = 1
    /\ cur.runs[1].block = "flat"
    /\ Unflagged(cur.runs[1].applied) = <<[group |-> "", action |-> 1, out |-> "stop"]>>
    /\ cur.runs[1].status = "ok"
    /\ summary.success = cur.base.success + 1
    /\ summary.errors = cur.base.errors

\* C7: after an action raised the stop signal no further action is applied to
\* the resource in the same pass.
C7_NothingAfterStop ==
    \A i, j \in 1..Len(AppliedToRes) :
        i < j => AppliedToRes[i].out # "stop"

\* C8: a rule whose group-filter graph is cyclic always ends in an error raised
\* out of Rule.execute, with no filter evaluated and no action applied.
C8_CyclicRuleRaises ==
    (pc # "off" /\ HasCycle(node_map)) =>
        /\ pc # "returned"
        /\ cur.evals = 0
        /\ AppliedToRes = <<>>
        /\ Counted(summary) = 0

\* C17: in a rule with group filters, a resource on which the matcher returned
\* the empty list gets no action applied and changes neither count.
C17_UnmatchedUncounted ==
    (node_map # <<>> /\ mt.pc = "done" /\ mt.ret = "list" /\ mt.result = <<>>) =>
        /\ AppliedToRes = <<>>
        /\ summary = cur.base

\* One step of Rule.execute seen from the skip-set: it never shrinks; it
\* changes only when an action run finishes without error, by the resource's
\* walker_skip_pathes; a resource with an action run that raised an error
\* leaves it as it was.
SkipSetStep ==
    /\ skip_pathes \subseteq skip_pathes'
    /\ skip_pathes' # skip_pathes => (pc = "apply" /\ Exhausted(ap))
    /\ (pc = "apply" /\ ap.block # "standalone" /\ Exhausted(ap) /\ pc' # "apply") =>
          skip_pathes' = skip_pathes \cup res.walker_skip_pathes
    /\ ( /\ yielded' = yielded
         /\ \E r \in 1..Len(cur.runs) : cur.runs[r].status = "error" )
       => skip_pathes' = skip_pathes

\* C18: the skip-set only grows, by a resource's walker_skip_pathes exactly
\* when an action run on it finishes without error; a resource whose action
\* run raised an error, or that was unmatched or skipped, leaves it unchanged.
C18_SkipSetGrowth == [][SkipSetStep]_vars

\* C19: an action that raises an error ends the action run of its block: no
\* action is applied after it in that run, Rule.execute reports the error to
\* the output, counts one error and no success for the run, and a resource is
\* counted as an error at most once.
C19_ActionErrorCounted ==
    /\ \A r \in 1..Len(RunsOfRes) :
         LET a == RunsOfRes[r]
         IN \A i, j \in 1..Len(a) : i < j => a[i].out # "error"
    /\ \A r \in 1..Len(cur.runs) :
         ( /\ cur.runs[r].applied # <<>>
           /\ cur.runs[r].applied[Len(cur.runs[r].applied)].out = "error" )
         => cur.runs[r].status = "error"
    /\ cur.reports = Cardinality({r \in 1..Len(cur.runs) : cur.runs[r].status = "error"})
    /\ summary.errors - cur.base.errors = cur.reports
    /\ summary.success - cur.base.success = Len(cur.runs) - cur.reports
    /\ summary.errors - cur.base.errors <= 1

\* Both action groups were selected; the second action of the first raised an
\* error, the action of the second group was never applied, and the run was
\* counted as one error.
C19_Witness ==
    /\ Len(cur.runs) >= 1
    /\ cur.runs[1].block = "group"
    /\ Range(mt.result) = {"A", "B"}
    /\ Unflagged(cur.runs[1].applied) = << [group |-> "A", action |-> 1, out |-> "ok"],
                                          [group |-> "A", action |-> 2, out |-> "error"] >>
    /\ summary.errors = cur.base.errors + 1
    /\ cur.reports = 1

\* One step of Rule.execute seen from the scan: an error leaves Rule.execute
\* only on a cyclic group graph; it returns only with the walker exhausted; a
\* resource whose path is not in the skip-set at its turn is taken to the
\* filters, which are then run on it; and after an action raised an error
\* Rule.execute stands in the loop again.
ScanStep ==
    /\ pc' = "raised" => HasCycle(node_map)
    /\ (pc' = "returned" /\ pc # "returned") => yielded = Len(walk)
    /\ (pc = "walk" /\ yielded < Len(walk) /\ walk[yielded + 1] \notin skip_pathes) =>
          /\ yielded' = yielded + 1
          /\ cur'.path = walk[yielded + 1]
          /\ pc' \in {"group", "flat"}
    /\ (pc \in {"group", "flat"} /\ ~HasCycle(node_map)) =>
          /\ cur'.filtered
          /\ cur'.path = cur.path
          /\ pc' \in {"apply", "walk"}
    /\ (rule.locations /\ summary'.errors # summary.errors) =>
          /\ pc' \in {"flat", "walk"}
          /\ yielded' = yielded
          /\ walk' = walk

\* C20: errors raised by filters or actions never end the scan: Rule.execute
\* is left by an error only on a cyclic group graph, it returns only when the
\* walker is exhausted, and every resource whose path is not in the skip-set
\* at its turn has the filters run on it.
C20_ScanContinues == [][ScanStep]_vars

\* The second resource has had the filters run on it although an action
\* raised an error on the first and a filter has raised an error in the scan.
C20_Witness ==
    /\ yielded = 2
    /\ cur.path = walk[2]
    /\ cur.filtered
    /\ cur.base.errors = 1
    /\ cur.filter_raised

\* The action runs of the group block on the current resource: what each has
\* applied, the run in progress included.
GroupRuns ==
    LET done == SelectSeq(cur.runs, LAMBDA r : r.block = "group")
    IN [j \in 1..Len(done) |-> done[j].applied]
        \o (IF pc = "apply" /\ ap.block = "group" THEN <<ap.applied>> ELSE <<>>)

\* The position of the action group named g among the rule's action groups.
GroupIndex(g) == CHOOSE k \in 1..Len(rule.group_actions) : rule.group_actions[k].name = g

\* C21: in a rule with group filters only action groups named in the matcher's
\* result are applied to the resource, in the declaration order of the action
\* groups whatever the order of the result, none of them twice; a run that
\* ended without error has applied every action group named in the result.
C21_SelectedGroupsApplied ==
    /\ \A r \in 1..Len(GroupRuns) :
         LET a == GroupRuns[r]
         IN /\ \A i \in 1..Len(a) :
                 /\ a[i].group \in Range(mt.result)
                 /\ a[i].group \in {rule.group_actions[k].name :
                                        k \in 1..Len(rule.group_actions)}
            /\ \A i, j \in 1..Len(a) :
                 i < j => \/ GroupIndex(a[i].group) < GroupIndex(a[j].group)
                          \/ /\ a[i].group = a[j].group
                             /\ a[i].action < a[j].action
    /\ Len(GroupRuns) <= 1
    /\ \A r \in 1..Len(cur.runs) :
         (cur.runs[r].block = "group" /\ cur.runs[r].status = "ok") =>
            \A k \in 1..Len(rule.group_actions) :
                rule.group_actions[k].name \in Range(mt.result) =>
                    \E i \in 1..Len(cur.runs[r].applied) :
                        cur.runs[r].applied[i].group = rule.group_actions[k].name
    /\ \A r \in 1..Len(cur.runs) :
         (cur.runs[r].block = "flat" /\ node_map # <<>> /\ rule.group_actions # <<>>) =>
            cur.runs[r].applied = <<>>

\* The matcher returned B before A; the actions of group A were applied before
\* the action of group B, and the run ended without error.
C21_Witness ==
    /\ mt.result = <<"B", "A">>
    /\ Len(cur.runs) >= 1
    /\ cur.runs[1].block = "group"
    /\ cur.runs[1].status = "ok"
    /\ Unflagged(cur.runs[1].applied) = << [group |-> "A", action |-> 1, out |-> "ok"],
                                          [group |-> "A", action |-> 2, out |-> "ok"],
                                          [group |-> "B", action |-> 3, out |-> "ok"] >>

\* Every action the rule configures, in order: the flat list, or the actions
\* of the action groups one group after the other.
RECURSIVE GroupedActions(_)
GroupedActions(gs) ==
    IF gs = <<>> THEN <<>> ELSE Head(gs).actions \o GroupedActions(Tail(gs))

ConfiguredActions == rule.actions \o GroupedActions(rule.group_actions)

\* C22: a rule without locations evaluates no filter; it returns success=1,
\* errors=0 when no action raised an error and success=0, errors=1 otherwise;
\* and when every action returned, each configured action, flat or inside an
\* action group, has been applied once, in order.
C22_StandaloneAppliesAll ==
    (pc = "returned" /\ ~rule.locations) =>
        LET a == AppliedToRes
            failed == \E i \in 1..Len(a) : a[i].out = "error"
        IN /\ cur.evals = 0
           /\ ~cur.filtered
           /\ res.path = NoPath
           /\ summary = IF failed THEN ReportSummary(0, 1) ELSE ReportSummary(1, 0)
           /\ (\A i \in 1..Len(a) : a[i].out = "ok") =>
                 [i \in 1..Len(a) |-> a[i].action] = ConfiguredActions

\* C29: a rule whose group-filter graph is acyclic or empty always returns a
\* summary, whatever its filters and actions raise, and every resource the
\* walker yields is done with by then: Rule.execute returns only when the
\* walker is exhausted, with no pipeline left running.
C29_ExecuteReturns ==
    /\ [](~HasCycle(node_map) => <>(pc = "returned"))
    /\ [](pc = "returned" /\ rule.locations =>
            /\ yielded = Len(walk)
            /\ summary.success + summary.errors <= 2 * yielded
            /\ ap = NoPipeline \/ Exhausted(ap) \/ cur.runs # <<>>)

\* Rule.execute has returned the summary of a scan of MaxResources resources
\* over a group-filter graph, in which a filter raised an error, an action
\* raised an error and the last run ended on a stop signal.
C29_Witness ==
    /\ pc = "returned"
    /\ rule.locations
    /\ node_map # <<>>
    /\ ~HasCycle(node_map)
    /\ yielded = MaxResources
    /\ cur.filter_raised
    /\ summary.errors >= 1
    /\ summary.success >= 1
    /\ cur.runs # <<>>
    /\ \E j \in 1..Len(cur.runs[Len(cur.runs)].applied) :
          cur.runs[Len(cur.runs)].applied[j].out = "stop"

----------------------------------------------------------------------------
(* Properties of filter_pipeline.                                          *)

\* The positions of the filters of the call that do not return `want`.
Others(want) == {n \in 1..Len(fp.outs) : fp.outs[n] # want}

\* The first of a non-empty set of positions.
First(S) == CHOOSE n \in S : \A k \in S : n <= k

\* What a call returns that stops at the first filter not returning `want`:
\* false, that filter the last invoked, its error reported if it raised; true
\* with every filter invoked when there is none.
StopsAtFirst(want) ==
    IF Others(want) = {}
    THEN fp.ret = [result |-> TRUE, invoked |-> Len(fp.outs), errors |-> 0]
    ELSE fp.ret = [result |-> FALSE, invoked |-> First(Others(want)),
                   errors |-> IF fp.outs[First(Others(want))] = "raise" THEN 1 ELSE 0]

\* C23: mode 'all' invokes the filters in order up to and including the first
\* that returns false or raises, yields false there and reports the error if
\* it raised; it yields true exactly when every filter was invoked and matched.
C23_AllShortCircuits ==
    (fp.returned /\ fp.filter_mode = "all") => StopsAtFirst("match")

\* The second of three filters raised: false, two filters invoked, one report.
C23_Witness ==
    /\ fp.returned
    /\ fp.filter_mode = "all"
    /\ fp.outs = <<"match", "raise", "match">>
    /\ fp.ret = [result |-> FALSE, invoked |-> 2, errors |-> 1]

\* C24: mode 'any' invokes every filter once, yields true exactly when some
\* filter returned true, and reports the error of every filter that raised.
C24_AnyEvaluatesAll ==
    (fp.returned /\ fp.filter_mode = "any") =>
        /\ fp.ret.invoked = Len(fp.outs)
        /\ fp.ret.result <=> (\E n \in 1..Len(fp.outs) : fp.outs[n] = "match")
        /\ fp.ret.errors = Cardinality({n \in 1..Len(fp.outs) : fp.outs[n] = "raise"})

\* The first filter raised and the second matched: the third was still invoked.
C24_Witness ==
    /\ fp.returned
    /\ fp.filter_mode = "any"
    /\ fp.outs = <<"raise", "match", "no">>
    /\ fp.ret = [result |-> TRUE, invoked |-> 3, errors |-> 1]

\* The outcome of a filter logically inverted: true for false, false for true,
\* the error for the error.
Inverted(outs) ==
    [n \in 1..Len(outs) |->
        IF outs[n] = "match" THEN "no" ELSE IF outs[n] = "no" THEN "match" ELSE "raise"]

\* C25: mode 'none' returns what mode 'all' returns on the inverted filters:
\* the same result, the same filters invoked and the same errors reported; it
\* yields true exactly when every filter was invoked and returned false, and
\* false at the first filter that matches or raises.
C25_NoneIsAllInverted ==
    (fp.returned /\ fp.filter_mode = "none") =>
        /\ fp.ret = AllPipeline(Inverted(fp.outs), 1)
        /\ StopsAtFirst("no")

\* The second of three filters raised under 'none': false, two filters
\* invoked, one report.
C25_Witness ==
    /\ fp.returned
    /\ fp.filter_mode = "none"
    /\ fp.outs = <<"no", "raise", "no">>
    /\ fp.ret = [result |-> FALSE, invoked |-> 2, errors |-> 1]

\* C26: over the empty filter list 'all' yields true, 'any' false and 'none'
\* true.
C26_EmptyList ==
    (fp.returned /\ fp.outs = <<>>) =>
        /\ fp.ret.result <=> fp.filter_mode \in {"all", "none"}
        /\ fp.ret.invoked = 0
        /\ fp.ret.errors = 0

\* The call over the empty list in mode 'none' has returned true.
C26_Witness ==
    /\ fp.returned
    /\ fp.outs = <<>>
    /\ fp.filter_mode = "none"
    /\ fp.ret.result

\* node_map with every depend_on_mode reset to 'and' and no inverted edge.
PlainEdges(nm) ==
    [k \in 1..Len(nm) |-> GroupFilter(nm[k].name, nm[k].depend_on, "and", {})]

\* C28: is_cyclic is true exactly when the depend_on edges between group names
\* contain a directed cycle (a self-dependency included, names of no group
\* ignored), whatever the modes and inverted edges; match gives the cyclic
\* signal exactly then, before any group is evaluated.
C28_CyclicIffCycle ==
    /\ mt.pc # "round" =>
          /\ is_cyclic(node_map) <=> HasCycle(node_map)
          /\ is_cyclic(PlainEdges(node_map)) = is_cyclic(node_map)
    /\ mt.pc # "call" => (mt.ret = "None" <=> HasCycle(node_map))

\* The cyclic signal for a group that depends on itself, beside an or-mode
\* group with an inverted dependency on a name of no group.
C28_Witness ==
    /\ mt.pc = "done"
    /\ mt.ret = "None"
    /\ \E k \in 1..Len(node_map) : node_map[k].name \in node_map[k].depend_on
    /\ \E k \in 1..Len(node_map) :
          /\ node_map[k].depend_on = {Unknown}
          /\ node_map[k].depend_on_inverted = {Unknown}
          /\ node_map[k].depend_on_mode = "or"

\* The matches of the rounds that have ended, in the order of evaluation.
Confirmed ==
    SelectSeq(mt.log, LAMBDA e : e.matched /\ (e.round < mt.round \/ mt.pc = "done"))

\* The place of a group in the declaration order.
Declared(name) == CHOOSE k \in 1..Len(node_map) : node_map[k].name = name

\* C33: the result list is append-only and ordered by round: a step of the
\* matcher only extends it, it holds the matched groups of the rounds that
\* have ended, every match of an earlier round before every match of a later
\* one, and the matches of round 1 in declaration order.
C33_ResultByRound ==
    /\ [][mt.pc # "call" =>
            /\ Len(mt.result) <= Len(mt'.result)
            /\ SubSeq(mt'.result, 1, Len(mt.result)) = mt.result]_vars
    /\ [](/\ mt.result = [k \in 1..Len(Confirmed) |-> Confirmed[k].name]
          /\ \A j, k \in 1..Len(Confirmed) :
                j < k =>
                  /\ Confirmed[j].round <= Confirmed[k].round
                  /\ Confirmed[k].round = 1 =>
                        Declared(Confirmed[j].name) < Declared(Confirmed[k].name))

\* A result of two rounds: two groups of round 1 in declaration order, then a
\* group of round 2 that is declared before both.
C33_Witness ==
    /\ Returned
    /\ Len(mt.result) = 3
    /\ Len(Confirmed) = 3
    /\ Confirmed[2].round = 1
    /\ Confirmed[3].round = 2
    /\ Declared(Confirmed[3].name) < Declared(Confirmed[1].name)

\* Every group uses depend_on_mode 'and'.
AllAnd(nm) == \A k \in 1..Len(nm) : nm[k].depend_on_mode = "and"

\* Dependency p of group g was evaluated and satisfied the edge: it matched
\* for a plain edge, it did not match for an inverted one.
EdgeSatisfied(g, p) ==
    /\ p \in Evaluated
    /\ outcome[p] # (p \in g.depend_on_inverted)

Propagations(c, p) ==
    {j \in 1..Len(mt.log) :
        /\ mt.log[j].name = p
        /\ Fires(node_map, p, c, mt.log[j].matched)}

\* C37: on an acyclic graph, or-mode groups included, the remaining in-degree
\* of every group stays between 0 and the number of its known dependencies,
\* and each dependency edge decrements it at most once.
C37_InDegreeInRange ==
    (~HasCycle(node_map) /\ mt.pc # "call") =>
        \A k \in 1..Len(node_map) :
            LET g == node_map[k]
            IN /\ mt.in_degree[g.name] >= 0
               /\ mt.in_degree[g.name] <= Cardinality(KnownDeps(node_map, g))
               /\ \A p \in KnownDeps(node_map, g) :
                     Cardinality(Propagations(g.name, p)) <= 1

\* Every group uses depend_on_mode 'and' and no edge is inverted.
PlainAnd(nm) ==
    \A k \in 1..Len(nm) :
        nm[k].depend_on_mode = "and" /\ nm[k].depend_on_inverted = {}

\* The assignments of match outcomes that agree with what the groups returned.
Assignments ==
    {outc \in [KnownNames(node_map) -> BOOLEAN] :
        \A n \in DOMAIN outcome : outc[n] = outcome[n]}

\* C34: on a graph whose groups all use depend_on_mode 'and' and have no
\* inverted edge, match returns what find_matching_path of src/test.py returns
\* for the same match outcomes: the same list in the same order, or None.
C34_SameAsReference ==
    (PlainAnd(node_map) /\ mt.pc = "done") =>
        \A outc \in Assignments :
            find_matching_path(node_map, outc) = [ret |-> mt.ret, result |-> mt.result]

\* match and the reference agree on a list of three groups found in two
\* rounds, with a group that did not match and a group never evaluated.
C34_Witness ==
    /\ PlainAnd(node_map)
    /\ Returned
    /\ Len(mt.result) = 3
    /\ mt.round >= 2
    /\ \E k \in 1..Len(mt.log) : ~mt.log[k].matched
    /\ Evaluated # KnownNames(node_map)
    /\ \A outc \in Assignments :
          find_matching_path(node_map, outc).result = mt.result

----------------------------------------------------------------------------
(* Properties of the matcher with the filter lists of the groups.          *)

\* What the pipeline of each group returned, false for a group never evaluated.
GroupMatched == [n \in KnownNames(node_map) |->
                    IF n \in DOMAIN outcome THEN outcome[n].ret.result ELSE FALSE]

\* A filter of group n raised an error when the pipeline of n invoked it.
GroupRaised(n) ==
    \E k \in 1..outcome[n].ret.invoked :
        (IF outcome[n].filter_mode = "none"
         THEN NotPipeline(outcome[n].outs[k]) ELSE outcome[n].outs[k]) = "raise"

\* C27 as stated: a group one of whose filters raised an error is evaluated
\* and not matched.
C27_GroupErrorIsNoMatch ==
    \A k \in 1..Len(mt.log) :
        GroupRaised(mt.log[k].name) => ~mt.log[k].matched

\* C27, amended: an error raised by a filter of a group never leaves the
\* matcher; it is reported, and the group is evaluated with the boolean its
\* pipeline returns: not matched in mode 'all' or 'none', matched in mode
\* 'any' exactly when another of its filters matched.  The edges of the group
\* propagate as for that boolean and the other groups of the frontier and of
\* later rounds are evaluated as if no error had been raised.
C27_GroupErrorContained ==
    /\ \A k \in 1..Len(mt.log) :
         LET call == outcome[mt.log[k].name]
         IN /\ mt.log[k].matched = call.ret.result
            /\ GroupRaised(mt.log[k].name) =>
                  /\ call.ret.errors >= 1
                  /\ call.filter_mode \in {"all", "none"} => ~mt.log[k].matched
                  /\ call.filter_mode = "any" =>
                        (mt.log[k].matched <=>
                            \E j \in 1..Len(call.outs) : call.outs[j] = "match")
    /\ mt.pc = "done" =>
         /\ mt.ret = IF HasCycle(node_map) THEN "None" ELSE "list"
         /\ mt = MatchRun(node_map, GroupMatched, MatchEnter(node_map))

\* A filter of the first group raised an error in mode 'all'; the group did
\* not match, and the group that depends on it through an inverted edge was
\* evaluated in the next round and returned.
C27_Witness ==
    /\ Returned
    /\ Len(mt.log) = 2
    /\ GroupRaised(mt.log[1].name)
    /\ outcome[mt.log[1].name].filter_mode = "all"
    /\ ~mt.log[1].matched
    /\ mt.log[2].round = 2
    /\ mt.result = <<mt.log[2].name>>

\* Where Rule.execute stands on the current resource: 1 group-filter matching,
\* 2 the matched group actions, 3 the flat filters, 4 the flat actions, 0
\* between resources.
Phase ==
    IF pc = "group" THEN 1
    ELSE IF pc = "apply" THEN (IF ap.block = "group" THEN 2 ELSE 4)
    ELSE IF pc = "flat" THEN 3
    ELSE 0

OrderStep ==
    rule.locations =>
        /\ yielded' # yielded =>
              /\ pc = "walk"
              /\ yielded' = yielded + 1
              /\ res' = Resource(walk[yielded'])
              /\ cur'.evals = 0 /\ cur'.runs = <<>>
        /\ (pc = "walk" /\ pc' \notin {"walk", "returned"}) =>
              Phase' = IF node_map # <<>> THEN 1 ELSE 3
        /\ Phase = 1 => (Phase' = 2 \/ pc' = "raised")
        /\ Phase = 2 => Phase' \in {2, 3}
        /\ Phase = 3 => (Phase' = 4 \/ pc' = "walk")
        /\ Phase = 4 => (Phase' = 4 \/ pc' = "walk")
        /\ Phase # 0 =>
              /\ yielded' = yielded
              /\ res.path = walk[yielded]
              /\ res'.path = res.path
              /\ res.walker_skip_pathes \subseteq res'.walker_skip_pathes
              /\ cur'.path = res.path
        /\ cur'.evals # cur.evals => (Phase \in {1, 3} \/ yielded' # yielded)
        /\ (ap'.applied # ap.applied /\ ap'.applied # <<>>) => Phase \in {2, 4}
        /\ cur'.runs # cur.runs => (Phase \in {2, 4} \/ yielded' # yielded)
        /\ (Phase' = 3 /\ cur'.runs # <<>>) =>
              /\ Len(cur'.runs) = 1
              /\ cur'.runs[1].block = "group"
              /\ cur'.runs[1].adds \subseteq res'.walker_skip_pathes

\* C32: Rule.execute processes one resource at a time in walker order, and on
\* each resource it runs the group-filter matching, then the matched group
\* actions, then the flat filters, then the flat actions; the flat filters
\* run on the resource as the group actions left it.
C32_OneAtATime == [][OrderStep]_vars

\* The flat block of the second resource has started after a run of the
\* matched group actions that put a path into its walker_skip_pathes.
C32_Witness ==
    /\ yielded = 2
    /\ Phase = 4
    /\ Len(cur.runs) = 1
    /\ cur.runs[1].block = "group"
    /\ cur.runs[1].applied # <<>>
    /\ cur.runs[1].adds # {}
    /\ cur.runs[1].adds \subseteq res.walker_skip_pathes
    /\ cur.evals > 0

----------------------------------------------------------------------------
(* Properties of two executions that differ in simulate.                   *)

\* Every action applied to the current resource, with the flag it was passed.
FlagsPassed ==
    {AppliedToRes[j].simulate : j \in 1..Len(AppliedToRes)}
        \cup (IF ap = NoPipeline THEN {} ELSE {ap.simulate})

\* C31: simulate is passed unchanged to every action, and an execution with
\* simulate=True in which every group and action returns or raises what it
\* did with simulate=False ends the same way: the same summary, the same
\* skip-set, the same resources pulled and the same actions applied.
C31_SimulateNotRead ==
    /\ FlagsPassed \subseteq {rule.simulate}
    /\ rule.simulate = (twin.run = 2)
    /\ (twin.run = 2 /\ pc \in {"returned", "raised"}) => Observed = twin.first

\* The second execution has returned like the first: two resources pulled,
\* the second one skipped, after a run on the first in which an action
\* stopped its group and an action of the next group was applied.
C31_Witness ==
    /\ twin.run = 2
    /\ pc = "returned"
    /\ Observed = twin.first
    /\ yielded = 2
    /\ skip_pathes = {"p2"}
    /\ summary.success >= 1

\* The second execution is applying the actions of the first resource: one
\* has stopped its group and the next group's action has been applied with
\* simulate=True.
C31_WitnessStop ==
    /\ twin.run = 2
    /\ pc = "apply"
    /\ Len(ap.applied) >= 2
    /\ ap.applied[1].out = "stop"
    /\ ap.applied[2].simulate

----------------------------------------------------------------------------
(* Properties of group_filter_from_dict.                                   *)

\* C35: the group filter built from a declared dict has the declared
\* depend_on_mode ('and' when none is declared), has X in depend_on and in
\* depend_on_inverted for every entry 'not X', has X in depend_on only for
\* every plain entry X, and its depend_on_inverted is a subset of depend_on.
C35_ConfigKept ==
    pc = "built" =>
        LET d == rule.filters
            g == node_map[1]
        IN /\ g.depend_on_mode =
                  IF d.depend_on_mode = "absent" THEN "and" ELSE d.depend_on_mode
           /\ \A dep \in d.depend_on :
                  IF StartsWithNot(dep)
                  THEN AfterNot(dep) \in g.depend_on \cap g.depend_on_inverted
                  ELSE dep \in g.depend_on \ g.depend_on_inverted
           /\ g.depend_on_inverted \subseteq g.depend_on

----------------------------------------------------------------------------
(* Properties of rule construction.                                        *)

\* The filters of the rule, flat or inside a group filter.
FiltersOf(r) ==
    {r.filters[k] : k \in {j \in 1..Len(r.filters) : ~IsGroupFilter(r.filters[j])}}
        \cup UNION {Range(r.filters[k].filters) :
                      k \in {j \in 1..Len(r.filters) : IsGroupFilter(r.filters[j])}}

\* The actions of the rule, flat or inside an action group.
ActionsOf(r) ==
    {r.actions[k] : k \in {j \in 1..Len(r.actions) : ~IsGroupAction(r.actions[j])}}
        \cup UNION {Range(r.actions[k].actions) :
                      k \in {j \in 1..Len(r.actions) : IsGroupAction(r.actions[j])}}

\* c declares support for the target kind.
Supports(c, targets) == IF targets = "files" THEN c.files ELSE c.dirs

TargetSupported(r) ==
    /\ \A f \in FiltersOf(r) : Supports(f, r.targets)
    /\ \A a \in ActionsOf(r) : Supports(a, r.targets)
    /\ ~r.locations =>
          /\ r.filters = <<>>
          /\ \A a \in ActionsOf(r) : a.standalone

\* C30: a rule that construction accepts has only filters and actions, flat or
\* grouped, that support its target kind and, when it has no locations, no
\* filters and only standalone-capable actions; construction raises an error
\* for every rule that breaks one of these conditions.
C30_AcceptedRuleSupported ==
    /\ pc = "accepted" => TargetSupported(rule)
    /\ pc = "ValueError" => ~TargetSupported(rule)
    /\ pc = "construct" => ENABLED NextConstruct

\* A rule for directories without locations and with two action groups has
\* been accepted.
C30_Witness ==
    /\ pc = "accepted"
    /\ rule.targets = "dirs"
    /\ ~rule.locations
    /\ Len(rule.actions) = 2
    /\ \A k \in 1..2 : IsGroupAction(rule.actions[k]) /\ rule.actions[k].actions # <<>>

-----------------------------------------------------------------------------
(* BaseDirSet of filters/dircontent.py: the list of base directories that  *)
(* DirContent keeps.  A path is the sequence of its components, the root   *)
(* directory being the empty sequence.                                     *)

MaxDepth == 2

Components == {"a", "b"}

DirPaths == UNION {[1..n -> Components] : n \in 0..MaxDepth}

\* path.relative_to(base) returns (does not raise ValueError): base is path
\* itself or one of its ancestors.
relative_to(path, base) ==
    /\ Len(base) <= Len(path)
    /\ SubSeq(path, 1, Len(base)) = base

\* dircontent.py 21-31: the loop of add from index i on.  The first stored
\* directory that contains path ends the call with the list as it is; the
\* first stored directory that path contains is overwritten by path and ends
\* the call; the directories behind it are not looked at.
RECURSIVE add_from(_, _, _)
add_from(dirs, path, i) ==
    IF i > Len(dirs) THEN Append(dirs, path)
    ELSE IF relative_to(path, dirs[i]) THEN dirs
    ELSE IF relative_to(dirs[i], path) THEN [dirs EXCEPT ![i] = path]
    ELSE add_from(dirs, path, i + 1)

\* dircontent.py 20-32: BaseDirSet.add
add(dirs, path) == add_from(dirs, path, 1)

\* dircontent.py 14-15: a new BaseDirSet is empty.
InitBaseDirSet ==
    /\ base_dirs = <<>>
    /\ pc = "dircontent"
    /\ rule = NoRule
    /\ node_map = <<>>
    /\ outcome = <<>>
    /\ mt = MatchIdle
    /\ walk = <<>>
    /\ yielded = 0
    /\ res = NoResource
    /\ skip_pathes = {}
    /\ summary = ReportSummary(0, 0)
    /\ ap = NoPipeline
    /\ cur = Pulled("", {}, ReportSummary(0, 0))
    /\ promised = {}
    /\ fp = NoFilterCall
    /\ twin = NoTwin

\* One call of BaseDirSet.add with some path.
Add ==
    /\ pc = "dircontent"
    /\ \E path \in DirPaths : base_dirs' = add(base_dirs, path)
    /\ UNCHANGED <<twin, fp, node_map, outcome, mt, rule, walk, yielded, res, skip_pathes,
                   summary, pc, ap, cur, promised>>

NextBaseDirSet == Add

SpecBaseDirSet == InitBaseDirSet /\ [][NextBaseDirSet]_vars

\* C38: after any sequence of add calls the stored base directories form an
\* antichain: no stored path is equal to, or an ancestor of, another stored
\* path.
C38_Antichain ==
    \A i, j \in 1..Len(base_dirs) :
        i # j => ~relative_to(base_dirs[j], base_dirs[i])

====
